---- MODULE Spec2Model ----
(***************************************************************************)
(* Model of the aarch64 paging layer: the page-table-entry codec           *)
(* (paging/page_table.rs), the Mapper trait (paging/mapper/mod.rs) and the *)
(* recursive 4KiB mapper (paging/mapper/recursive_page_table.rs).          *)
(*                                                                         *)
(* A 64-bit word (descriptor, physical or virtual address) is the set of   *)
(* its set bit positions, a subset of 0..63: | is \cup, & is \cap, ! is    *)
(* the complement in 0..63.  Physical memory is sparse: a cell             *)
(* <<frame, index>> that is absent from DOMAIN mem holds the word 0.       *)
(***************************************************************************)
EXTENDS Integers, Sequences, FiniteSets, TLC

VARIABLES
    mem,              \* physical memory: <<frame start address, index>> -> descriptor
    ttbr,             \* physical start address of the top-level table
    recursive_index,  \* RecursivePageTable.recursive_index
    alloc,            \* the frames the injected allocator will still hand out
    debug,            \* whether the build has debug assertions
    halted,           \* a panic or a data abort ended execution
    last,             \* the last call: operation, arguments, result
    prev_map,         \* the call before it, when that was a successful map_to
    window_used,      \* some call so far named a page of the recursive window
    nops,             \* number of calls made
    unmapped,         \* the pages unmapped with success and not mapped since
    insns,            \* the barrier and TLB instructions the last step executed
    pc                \* where a map_to in progress stands (stepwise execution)

vars == <<mem, ttbr, recursive_index, alloc, debug, halted, last, prev_map,
          window_used, nops, insns, pc, unmapped>>

-----------------------------------------------------------------------------
(* Bounds *)

MaxOps == 2

MaxAlloc == 3

-----------------------------------------------------------------------------
(* Words *)

U64 == 0..63

ENTRY_COUNT == 512

\* the 9-bit index i placed at bit position lo
IdxBits(i, lo) == {lo + k : k \in {j \in 0..8 : (i \div (2^j)) % 2 = 1}}

\* the 9-bit field of word w that starts at bit position lo
IdxOf(w, lo) ==
    LET b(k) == IF (lo + k) \in w THEN 2^k ELSE 0
    IN  b(0) + b(1) + b(2) + b(3) + b(4) + b(5) + b(6) + b(7) + b(8)

-----------------------------------------------------------------------------
(* paging/page_table.rs: descriptor layout *)

\* ADDR_MASK with a slip: 0x0000_ffff_ffff_fc00
ADDR_MASK_from_10 == 10..47

ADDR_MASK == 12..47

MEMORY_ATTR_MASK == {2, 3, 4} \cup {8, 9}

FLAGS_MASK == U64 \ (MEMORY_ATTR_MASK \cup ADDR_MASK)

VALID == 0

TABLE_OR_PAGE == 1

AF == 10

\* every bit the bitflags type PageTableFlags defines
PageTableFlags_all ==
    {0, 1, 5, 6, 7, 10, 11, 51, 52, 53, 54, 55, 56, 57, 58, 59, 60, 61, 62, 63}

default_table == {VALID, TABLE_OR_PAGE}

default_block == {VALID, AF}

default_page == {VALID, TABLE_OR_PAGE, AF}

\* PageTableFlags::default(), which create_next_table passes to set_frame
PageTableFlags_default == default_table

\* memory_attribute.rs: <T as MairType>::INDEX
MairNormal_INDEX == 0

MairDevice_INDEX == 1

MairNormalNonCacheable_INDEX == 2

\* MairNormal::attr_value with a slip: the value of MairDevice
MairNormal_attr_value_device == IdxBits(1, 2) \cup {9}

\* memory_attribute.rs: AttrIndx at bits 2..4, SH at bits 8..9
MairNormal_attr_value == IdxBits(MairNormal_INDEX, 2) \cup {8, 9}

MairDevice_attr_value == IdxBits(MairDevice_INDEX, 2) \cup {9}

\* MairNormalNonCacheable::attr_value with a slip: the index of MairDevice
MairNormalNonCacheable_attr_value_device == IdxBits(MairDevice_INDEX, 2) \cup {9}

MairNormalNonCacheable_attr_value == IdxBits(MairNormalNonCacheable_INDEX, 2) \cup {9}

is_unused(e) == e = {}

\* the value PageTableEntry::set_unused leaves in an entry that held e
\* set_unused with a slip: only VALID is cleared
set_unused_valid_only(e) == e \ {VALID}

set_unused(e) == {}

flags(e) == e \cap PageTableFlags_all

\* addr with a slip: the mask reaches up to bit 51
addr_upto_51(e) == e \cap (12..51)

addr(e) == e \cap ADDR_MASK

attr(e) == e \cap MEMORY_ATTR_MASK

\* is_block with a slip: the negation is missing
is_block_negated(e) == TABLE_OR_PAGE \in flags(e)

is_block(e) == TABLE_OR_PAGE \notin flags(e)

\* PhysAddr::align_down(2^bits)
align_down(a, bits) == a \ (0..(bits - 1))

\* frame with a slip: the block test comes before the VALID test
frame_res_block_first(e) ==
    IF is_block(e) THEN "HugeFrame"
    ELSE IF VALID \notin flags(e) THEN "FrameNotPresent"
    ELSE "Ok"

\* PageTableEntry::frame: "Ok", "FrameNotPresent" or "HugeFrame"
frame_res(e) ==
    IF VALID \notin flags(e) THEN "FrameNotPresent"
    ELSE IF is_block(e) THEN "HugeFrame"
    ELSE "Ok"

\* frame with a slip: the address is aligned down to 2MiB
frame_of_2m(e) == align_down(addr(e), 21)

\* the frame PageTableEntry::frame returns when frame_res is "Ok"
frame_of(e) == align_down(addr(e), 12)

\* set_addr with a slip: the flags are left out of the descriptor
set_addr_no_flags(a, fl, at) == a \cup at

\* set_addr with a slip: the address is left out of the descriptor
set_addr_no_addr(a, fl, at) == fl \cup at

set_addr(a, fl, at) == a \cup fl \cup at

\* the assertion of set_frame with a slip: VALID is tested
set_frame_asserts_valid(fl) == VALID \in fl

\* debug_assert!(flags.contains(TABLE_OR_PAGE)) of set_frame
set_frame_asserts(fl) == TABLE_OR_PAGE \in fl

set_frame(f, fl, at) == set_addr(f, fl, at)

\* debug_assert!(!flags.contains(TABLE_OR_PAGE)) of set_block
set_block_asserts(fl) == TABLE_OR_PAGE \notin fl

\* set_block with a slip: the address is stored as given
set_block_no_align(a, fl, at, sizeBits) == set_addr(a, fl, at)

\* S::SIZE is 2^sizeBits: 21 for 2MiB, 30 for 1GiB
set_block(a, fl, at, sizeBits) == set_addr(align_down(a, sizeBits), fl, at)

\* set_flags with a slip: the old flag bits are not cleared
set_flags_or(e, fl) == e \cup fl

set_flags(e, fl) == (e \ FLAGS_MASK) \cup fl

set_attr(e, at) == (e \ MEMORY_ATTR_MASK) \cup at

-----------------------------------------------------------------------------
(* Physical memory and the hardware table walk *)

Read(m, t, i) == IF <<t, i>> \in DOMAIN m THEN m[<<t, i>>] ELSE {}

Write(m, t, i, e) ==
    IF e = {}
    THEN [k \in (DOMAIN m) \ {<<t, i>>} |-> m[k]]
    ELSE [k \in (DOMAIN m) \cup {<<t, i>>} |-> IF k = <<t, i>> THEN e ELSE m[k]]

\* zero with a slip: the loop starts at entry 1
zero_from_one(m, t) ==
    LET cleared == [k \in DOMAIN m |->
                        IF k[1] = t /\ k[2] >= 1 THEN set_unused(m[k]) ELSE m[k]]
    IN  [k \in {c \in DOMAIN m : cleared[c] # {}} |-> cleared[k]]

\* PageTable::zero on the table in frame t
zero(m, t) ==
    LET cleared == [k \in DOMAIN m |-> IF k[1] = t THEN set_unused(m[k]) ELSE m[k]]
    IN  [k \in {c \in DOMAIN m : cleared[c] # {}} |-> cleared[k]]

IsTableDesc(e) == VALID \in e /\ TABLE_OR_PAGE \in e

IsBlockDesc(e) == VALID \in e /\ TABLE_OR_PAGE \notin e

Fault == [ok |-> FALSE, frame |-> {}]

Reached(f) == [ok |-> TRUE, frame |-> f]

\* The frame a virtual page with table indices ix = <<a, b, c, d>> resolves to
\* when the translation hardware walks the tables that start at root: this is
\* what dereferencing a pointer into that page reads or writes.  A descriptor
\* that is not valid at its level raises a data abort (Fault).
Deref(m, root, ix) ==
    LET e0 == Read(m, root, ix[1])
        e1 == Read(m, addr(e0), ix[2])
        e2 == Read(m, addr(e1), ix[3])
        e3 == Read(m, addr(e2), ix[4])
    IN  IF ~IsTableDesc(e0) THEN Fault
        ELSE IF IsBlockDesc(e1)
             THEN Reached(align_down(addr(e1), 30)
                          \cup IdxBits(ix[3], 21) \cup IdxBits(ix[4], 12))
        ELSE IF ~IsTableDesc(e1) THEN Fault
        ELSE IF IsBlockDesc(e2)
             THEN Reached(align_down(addr(e2), 21) \cup IdxBits(ix[4], 12))
        ELSE IF ~IsTableDesc(e2) THEN Fault
        ELSE IF ~IsTableDesc(e3) THEN Fault
        ELSE Reached(addr(e3))

-----------------------------------------------------------------------------
(* paging/mapper/recursive_page_table.rs *)

\* A Page<Size4KiB> is the tuple of its table indices <<p4, p3, p2, p1>>.
p4_index(page) == page[1]

p3_index(page) == page[2]

p2_index(page) == page[3]

p1_index(page) == page[4]

p4_page(R, page) == <<R, R, R, R>>

\* p3_page with a slip: the body of p4_page, copied
p3_page_as_p4(R, page) == <<R, R, R, R>>

p3_page(R, page) == <<R, R, R, p4_index(page)>>

\* p2_page with a slip: the two indices are swapped
p2_page_swapped(R, page) == <<R, R, p3_index(page), p4_index(page)>>

p2_page(R, page) == <<R, R, p4_index(page), p3_index(page)>>

\* p1_page with a slip: the last two indices are swapped
p1_page_swapped(R, page) == <<R, p4_index(page), p2_index(page), p3_index(page)>>

p1_page(R, page) == <<R, p4_index(page), p3_index(page), p2_index(page)>>

\* The progress of a table walk made by the mapper: res is "Ok" or the error
\* that ended it, tbl the frame of the table the walk has reached.
Walk(res, m, al, tbl) == [res |-> res, mem |-> m, alloc |-> al, tbl |-> tbl]

\* create_next_table on entry idx of the table st.tbl; next_table_page is the
\* recursive page of the next table.  An earlier error passes through (the ?
\* operator of map_to).
create_next_table_inner(st, root, dbg, idx, next_table_page) ==
    IF st.res # "Ok" THEN st
    ELSE
    LET unused == is_unused(Read(st.mem, st.tbl, idx))
    IN  IF unused /\ st.alloc = <<>>
        THEN Walk("FrameAllocationFailed", st.mem, st.alloc, st.tbl)
        ELSE IF unused /\ dbg /\ ~set_frame_asserts(PageTableFlags_default)
        THEN Walk("Panic", st.mem, Tail(st.alloc), st.tbl)
        ELSE
        LET m1 == IF unused
                  THEN Write(st.mem, st.tbl, idx,
                             set_frame(Head(st.alloc), PageTableFlags_default,
                                       MairNormal_attr_value))
                  ELSE st.mem
            a1 == IF unused THEN Tail(st.alloc) ELSE st.alloc
            d  == Deref(m1, root, next_table_page)
        IN  IF is_block(Read(m1, st.tbl, idx))
            THEN Walk("ParentEntryHugePage", m1, a1, st.tbl)
            ELSE IF ~d.ok THEN Walk("DataAbort", m1, a1, st.tbl)
            ELSE Walk("Ok", IF unused THEN zero(m1, d.frame) ELSE m1, a1, d.frame)

\* no MapperFlush: the call returned Err, or returns no token at all
NoToken == <<>>

\* MapperFlush::new with a slip: the token wraps the page of the next table up
MapperFlush_new_parent(page) == <<<<page[1], page[1], page[2], page[3]>>>>

\* MapperFlush::new: the token wraps the page
MapperFlush_new(page) == <<page>>

\* create_next_table with a slip: a failed allocation is reported as a block
create_next_table_wrong_error(st, root, dbg, idx, next_table_page) ==
    LET w == create_next_table_inner(st, root, dbg, idx, next_table_page)
    IN  IF w.res = "FrameAllocationFailed" /\ st.res = "Ok"
        THEN [w EXCEPT !.res = "ParentEntryHugePage"]
        ELSE w

\* create_next_table with a slip: a frame is taken whether or not the entry is
\* unused
create_next_table_eager_alloc(st, root, dbg, idx, next_table_page) ==
    LET w == create_next_table_inner(st, root, dbg, idx, next_table_page)
    IN  IF st.res = "Ok" /\ ~is_unused(Read(st.mem, st.tbl, idx)) /\ w.alloc # <<>>
        THEN [w EXCEPT !.alloc = Tail(w.alloc)]
        ELSE w

\* create_next_table with a slip: the frame is taken before the block test
create_next_table_alloc_on_block(st, root, dbg, idx, next_table_page) ==
    LET w == create_next_table_inner(st, root, dbg, idx, next_table_page)
    IN  IF st.res = "Ok" /\ w.res = "ParentEntryHugePage" /\ w.alloc # <<>>
        THEN [w EXCEPT !.alloc = Tail(w.alloc)]
        ELSE w

\* create_next_table with a slip: when the allocation fails, the entry that
\* links the table reached so far is cleared again
create_next_table_unlink_on_failure(st, root, dbg, idx, next_table_page) ==
    LET w == create_next_table_inner(st, root, dbg, idx, next_table_page)
    IN  IF st.res = "Ok" /\ w.res = "FrameAllocationFailed" /\ st.tbl # root
        THEN [w EXCEPT !.mem = [k \in {c \in DOMAIN w.mem : addr(w.mem[c]) # st.tbl}
                                    |-> w.mem[k]]]
        ELSE w

\* create_next_table: the call of its inner function
create_next_table(st, root, dbg, idx, next_table_page) ==
    create_next_table_inner(st, root, dbg, idx, next_table_page)

\* The outcome of a mapper call: res, the memory and allocator after it, the
\* frame it returns (ret) and the entry it returns a reference to (tbl, idx).
Outcome(res, m, al, ret, tbl, idx) ==
    [res |-> res, mem |-> m, alloc |-> al, ret |-> ret, tbl |-> tbl, idx |-> idx,
     token |-> NoToken]

\* an outcome Ok(MapperFlush::new(page)), or Ok((frame, MapperFlush::new(page)))
Flushed(o, page) == [o EXCEPT !.token = MapperFlush_new(page)]

\* the leaf test with a slip: only a VALID leaf counts as mapped
leaf_in_use_valid(e) == VALID \in flags(e)

\* the test of map_to on the leaf entry that gives PageAlreadyMapped
leaf_in_use(e) == ~is_unused(e)

\* Mapper<Size4KiB>::map_to
map_to(m, al, root, R, dbg, page, frame, fl, at) ==
    LET d4 == Deref(m, root, p4_page(R, page))
        s0 == Walk(IF d4.ok THEN "Ok" ELSE "DataAbort", m, al, d4.frame)
        s3 == create_next_table(s0, root, dbg, p4_index(page), p3_page(R, page))
        s2 == create_next_table(s3, root, dbg, p3_index(page), p2_page(R, page))
        s1 == create_next_table(s2, root, dbg, p2_index(page), p1_page(R, page))
    IN  IF s1.res # "Ok"
        THEN Outcome(s1.res, s1.mem, s1.alloc, {}, {}, 0)
        ELSE IF leaf_in_use(Read(s1.mem, s1.tbl, p1_index(page)))
        THEN Outcome("PageAlreadyMapped", s1.mem, s1.alloc, {}, {}, 0)
        ELSE IF dbg /\ ~set_frame_asserts(fl)
        THEN Outcome("Panic", s1.mem, s1.alloc, {}, {}, 0)
        ELSE Flushed(Outcome("Ok",
                             Write(s1.mem, s1.tbl, p1_index(page), set_frame(frame, fl, at)),
                             s1.alloc, {}, s1.tbl, p1_index(page)), page)

\* get_entry with a leaf test added: an unused leaf is reported as PageNotMapped
get_entry_checks_leaf(m, al, root, R, page) ==
    LET d4 == Deref(m, root, p4_page(R, page))
        d3 == Deref(m, root, p3_page(R, page))
        d2 == Deref(m, root, p2_page(R, page))
        d1 == Deref(m, root, p1_page(R, page))
        Err(r) == Outcome(r, m, al, {}, {}, 0)
    IN  IF ~d4.ok THEN Err("DataAbort")
        ELSE IF is_unused(Read(m, d4.frame, p4_index(page))) THEN Err("PageNotMapped")
        ELSE IF ~d3.ok THEN Err("DataAbort")
        ELSE IF is_unused(Read(m, d3.frame, p3_index(page))) THEN Err("PageNotMapped")
        ELSE IF ~d2.ok THEN Err("DataAbort")
        ELSE IF is_unused(Read(m, d2.frame, p2_index(page))) THEN Err("PageNotMapped")
        ELSE IF ~d1.ok THEN Err("DataAbort")
        ELSE IF is_unused(Read(m, d1.frame, p1_index(page))) THEN Err("PageNotMapped")
        ELSE Outcome("Ok", m, al, {}, d1.frame, p1_index(page))

\* Mapper<Size4KiB>::get_entry; on "Ok" the entry is cell <<tbl, idx>>.  A
\* table pointer that does not resolve aborts at the first read through it.
get_entry(m, al, root, R, page) ==
    LET d4 == Deref(m, root, p4_page(R, page))
        d3 == Deref(m, root, p3_page(R, page))
        d2 == Deref(m, root, p2_page(R, page))
        d1 == Deref(m, root, p1_page(R, page))
        Err(r) == Outcome(r, m, al, {}, {}, 0)
    IN  IF ~d4.ok THEN Err("DataAbort")
        ELSE IF is_unused(Read(m, d4.frame, p4_index(page))) THEN Err("PageNotMapped")
        ELSE IF ~d3.ok THEN Err("DataAbort")
        ELSE IF is_unused(Read(m, d3.frame, p3_index(page))) THEN Err("PageNotMapped")
        ELSE IF ~d2.ok THEN Err("DataAbort")
        ELSE IF is_unused(Read(m, d2.frame, p2_index(page))) THEN Err("PageNotMapped")
        ELSE IF ~d1.ok THEN Err("DataAbort")
        ELSE Outcome("Ok", m, al, {}, d1.frame, p1_index(page))

\* the map_err with a slip: the two arms are swapped
unmap_err_swapped(fe) ==
    IF fe = "FrameNotPresent" THEN "ParentEntryHugePage" ELSE "PageNotMapped"

\* the map_err of unmap: FrameError to UnmapError
unmap_err(fe) ==
    IF fe = "FrameNotPresent" THEN "PageNotMapped" ELSE "ParentEntryHugePage"

\* unmap with a slip: the entry that links the level-1 table is cleared as well
unmap_unlinks_table(m, al, root, R, page) ==
    LET d4 == Deref(m, root, p4_page(R, page))
        d3 == Deref(m, root, p3_page(R, page))
        d2 == Deref(m, root, p2_page(R, page))
        d1 == Deref(m, root, p1_page(R, page))
        e4 == Read(m, d4.frame, p4_index(page))
        e3 == Read(m, d3.frame, p3_index(page))
        e2 == Read(m, d2.frame, p2_index(page))
        e1 == Read(m, d1.frame, p1_index(page))
        Err(r) == Outcome(r, m, al, {}, {}, 0)
    IN  IF ~d4.ok THEN Err("DataAbort")
        ELSE IF frame_res(e4) # "Ok" THEN Err(unmap_err(frame_res(e4)))
        ELSE IF ~d3.ok THEN Err("DataAbort")
        ELSE IF frame_res(e3) # "Ok" THEN Err(unmap_err(frame_res(e3)))
        ELSE IF ~d2.ok THEN Err("DataAbort")
        ELSE IF frame_res(e2) # "Ok" THEN Err(unmap_err(frame_res(e2)))
        ELSE IF ~d1.ok THEN Err("DataAbort")
        ELSE IF frame_res(e1) # "Ok" THEN Err(unmap_err(frame_res(e1)))
        ELSE Flushed(Outcome("Ok",
                             Write(Write(m, d1.frame, p1_index(page), set_unused(e1)),
                                   d2.frame, p2_index(page), set_unused(e2)), al,
                             frame_of(e1), d1.frame, p1_index(page)), page)

\* Mapper<Size4KiB>::unmap
unmap(m, al, root, R, page) ==
    LET d4 == Deref(m, root, p4_page(R, page))
        d3 == Deref(m, root, p3_page(R, page))
        d2 == Deref(m, root, p2_page(R, page))
        d1 == Deref(m, root, p1_page(R, page))
        e4 == Read(m, d4.frame, p4_index(page))
        e3 == Read(m, d3.frame, p3_index(page))
        e2 == Read(m, d2.frame, p2_index(page))
        e1 == Read(m, d1.frame, p1_index(page))
        Err(r) == Outcome(r, m, al, {}, {}, 0)
    IN  IF ~d4.ok THEN Err("DataAbort")
        ELSE IF frame_res(e4) # "Ok" THEN Err(unmap_err(frame_res(e4)))
        ELSE IF ~d3.ok THEN Err("DataAbort")
        ELSE IF frame_res(e3) # "Ok" THEN Err(unmap_err(frame_res(e3)))
        ELSE IF ~d2.ok THEN Err("DataAbort")
        ELSE IF frame_res(e2) # "Ok" THEN Err(unmap_err(frame_res(e2)))
        ELSE IF ~d1.ok THEN Err("DataAbort")
        ELSE IF frame_res(e1) # "Ok" THEN Err(unmap_err(frame_res(e1)))
        ELSE Flushed(Outcome("Ok", Write(m, d1.frame, p1_index(page), set_unused(e1)), al,
                             frame_of(e1), d1.frame, p1_index(page)), page)

-----------------------------------------------------------------------------
(* paging/mapper/mod.rs: the provided methods of Mapper *)

\* update_flags with a slip: the test for an unused leaf is missing
update_flags_no_unused_test(m, al, root, R, page, fl) ==
    LET g == get_entry(m, al, root, R, page)
        e == Read(m, g.tbl, g.idx)
    IN  IF g.res # "Ok" THEN g
        ELSE Flushed(Outcome("Ok", Write(m, g.tbl, g.idx, set_flags(e, fl)), al, {},
                             g.tbl, g.idx), page)

\* Mapper::update_flags
update_flags(m, al, root, R, page, fl) ==
    LET g == get_entry(m, al, root, R, page)
        e == Read(m, g.tbl, g.idx)
    IN  IF g.res # "Ok" THEN g
        ELSE IF is_unused(e) THEN Outcome("PageNotMapped", m, al, {}, {}, 0)
        ELSE Flushed(Outcome("Ok", Write(m, g.tbl, g.idx, set_flags(e, fl)), al, {},
                             g.tbl, g.idx), page)

\* translate_page with a slip: the test for an unused entry is missing
translate_page_no_unused_test(m, al, root, R, page) ==
    LET g == get_entry(m, al, root, R, page)
        e == Read(m, g.tbl, g.idx)
    IN  IF g.res # "Ok" THEN g
        ELSE IF align_down(addr(e), 12) # addr(e)
        THEN Outcome("InvalidFrameAddress", m, al, addr(e), {}, 0)
        ELSE Outcome("Ok", m, al, addr(e), g.tbl, g.idx)

\* Mapper::translate_page; ret is the frame on "Ok"
translate_page(m, al, root, R, page) ==
    LET g == get_entry(m, al, root, R, page)
        e == Read(m, g.tbl, g.idx)
    IN  IF g.res # "Ok" THEN g
        ELSE IF is_unused(e) THEN Outcome("PageNotMapped", m, al, {}, {}, 0)
        ELSE IF align_down(addr(e), 12) # addr(e)
        THEN Outcome("InvalidFrameAddress", m, al, addr(e), {}, 0)
        ELSE Outcome("Ok", m, al, addr(e), g.tbl, g.idx)

\* Mapper::get_entry_mut followed by PageTableEntry::set_flags on the entry
entry_set_flags(m, al, root, R, page, fl) ==
    LET g == get_entry(m, al, root, R, page)
        e == Read(m, g.tbl, g.idx)
    IN  IF g.res # "Ok" THEN g
        ELSE Outcome("Ok", Write(m, g.tbl, g.idx, set_flags(e, fl)), al, {}, g.tbl, g.idx)

\* Mapper::get_entry_mut followed by PageTableEntry::set_attr on the entry
entry_set_attr(m, al, root, R, page, at) ==
    LET g == get_entry(m, al, root, R, page)
        e == Read(m, g.tbl, g.idx)
    IN  IF g.res # "Ok" THEN g
        ELSE Outcome("Ok", Write(m, g.tbl, g.idx, set_attr(e, at)), al, {}, g.tbl, g.idx)

\* Mapper::get_entry_mut followed by PageTableEntry::set_frame on the entry
entry_set_frame(m, al, root, R, dbg, page, frame, fl, at) ==
    LET g == get_entry(m, al, root, R, page)
    IN  IF g.res # "Ok" THEN g
        ELSE IF dbg /\ ~set_frame_asserts(fl)
        THEN Outcome("Panic", m, al, {}, {}, 0)
        ELSE Outcome("Ok", Write(m, g.tbl, g.idx, set_frame(frame, fl, at)), al,
                     {}, g.tbl, g.idx)

\* Mapper::get_entry_mut followed by PageTableEntry::set_block::<S> on the entry
entry_set_block(m, al, root, R, dbg, page, a, fl, at, sizeBits) ==
    LET g == get_entry(m, al, root, R, page)
    IN  IF g.res # "Ok" THEN g
        ELSE IF dbg /\ ~set_block_asserts(fl)
        THEN Outcome("Panic", m, al, {}, {}, 0)
        ELSE Outcome("Ok", Write(m, g.tbl, g.idx, set_block(a, fl, at, sizeBits)), al,
                     {}, g.tbl, g.idx)

-----------------------------------------------------------------------------
(* paging/mapper/mod.rs: MapperAllSizes *)

\* Page::from_page_table_indices: the base virtual address of a page (bits 0..47)
PageVA(page) ==
    IdxBits(page[1], 39) \cup IdxBits(page[2], 30)
        \cup IdxBits(page[3], 21) \cup IdxBits(page[4], 12)

\* Page::containing_address, as table indices
page_of(va) == <<IdxOf(va, 39), IdxOf(va, 30), IdxOf(va, 21), IdxOf(va, 12)>>

Translated(kind, frame, offset) == [kind |-> kind, frame |-> frame, offset |-> offset]

\* MapperAllSizes::translate: walks down to the first block or to the leaf; the
\* 4KiB leg is translate_page
translate(m, al, root, R, va) ==
    LET page == page_of(va)
        d4 == Deref(m, root, p4_page(R, page))
        d3 == Deref(m, root, p3_page(R, page))
        d2 == Deref(m, root, p2_page(R, page))
        e4 == Read(m, d4.frame, p4_index(page))
        e3 == Read(m, d3.frame, p3_index(page))
        e2 == Read(m, d2.frame, p2_index(page))
        t  == translate_page(m, al, root, R, page)
    IN  IF ~d4.ok THEN Translated("DataAbort", {}, {})
        ELSE IF is_unused(e4) THEN Translated("PageNotMapped", {}, {})
        ELSE IF ~d3.ok THEN Translated("DataAbort", {}, {})
        ELSE IF is_unused(e3) THEN Translated("PageNotMapped", {}, {})
        ELSE IF IsBlockDesc(e3)
        THEN Translated("Frame1GiB", align_down(addr(e3), 30), va \cap (0..29))
        ELSE IF ~d2.ok THEN Translated("DataAbort", {}, {})
        ELSE IF is_unused(e2) THEN Translated("PageNotMapped", {}, {})
        ELSE IF IsBlockDesc(e2)
        THEN Translated("Frame2MiB", align_down(addr(e2), 21), va \cap (0..20))
        ELSE IF t.res = "Ok" THEN Translated("Frame4KiB", t.ret, va \cap (0..11))
        ELSE Translated(t.res, t.ret, {})

None == [res |-> "None", addr |-> {}]

Some(a) == [res |-> "Some", addr |-> a]

\* translate_addr with a slip: the offset within the frame is dropped
translate_addr_no_offset(m, al, root, R, va) ==
    LET t == translate(m, al, root, R, va)
    IN  IF t.kind \in {"PageNotMapped", "InvalidFrameAddress"} THEN None
        ELSE IF t.kind = "DataAbort" THEN [res |-> "DataAbort", addr |-> {}]
        ELSE Some(t.frame)

\* MapperAllSizes::translate_addr; frame.start_address() + offset is the union
\* of the two words, the offset lying below the frame's alignment
translate_addr(m, al, root, R, va) ==
    LET t == translate(m, al, root, R, va)
    IN  IF t.kind \in {"PageNotMapped", "InvalidFrameAddress"} THEN None
        ELSE IF t.kind = "DataAbort" THEN [res |-> "DataAbort", addr |-> {}]
        ELSE Some(t.frame \cup t.offset)

\* identity_map with a slip: the page is the one below the frame's address
identity_map_page_below(m, al, root, R, dbg, frame, fl, at) ==
    map_to(m, al, root, R, dbg, page_of(frame \ {12}), frame, fl, at)

\* Mapper::identity_map: the page is Page::containing_address of the virtual
\* address with the value of frame.start_address()
identity_map(m, al, root, R, dbg, frame, fl, at) ==
    map_to(m, al, root, R, dbg, page_of(frame), frame, fl, at)

-----------------------------------------------------------------------------
(* Initial states and inputs *)

\* the frame of the top-level table, 0x1000
RootFrame == IdxBits(1, 12)

\* the frames the allocator owns, 0x3000, 0x4000, ...
Pool == [i \in 1..MaxAlloc |-> IdxBits(2 + i, 12)]

\* a table built before the mapper took over, at 0x10000
BootL3 == {16}

\* what a frame last held before the allocator hands it out
Stale == {14, 15} \cup default_page \cup MairNormal_attr_value

RecursiveIndexInputs == {ENTRY_COUNT - 1}

RecursiveSlot(R) == [c \in {<<RootFrame, R>>} |->
                        RootFrame \cup default_page \cup MairNormal_attr_value]

StaleCells == [c \in {<<Pool[i], j>> : i \in 1..MaxAlloc, j \in {0, 1}} |-> Stale]

\* an address space with a 1GiB block at <<0, 1>>
BlockCells ==
    (<<RootFrame, 0>> :> (BootL3 \cup default_table \cup MairNormal_attr_value))
    @@ (<<BootL3, 1>> :> ({30} \cup default_block \cup MairNormal_attr_value))

\* the address spaces a mapper is created on: empty but for the recursive
\* slot, or holding a 1GiB block
InitialTables(R) ==
    { RecursiveSlot(R) @@ StaleCells,
      RecursiveSlot(R) @@ StaleCells @@ BlockCells }

\* pages: 0x1000, its sibling 0x0, a page of the second GiB, and two pages of
\* the recursive window (the top-level table itself, and entry 1 of the
\* level-3 table of slot 0)
PageInputs(R) ==
    { <<0, 0, 0, 1>>, <<0, 0, 0, 0>>, <<0, 1, 0, 0>>, <<R, R, R, R>>, <<R, R, 0, 1>> }

\* frames 0x0 and 0x2000
FrameInputs == { {}, {13} }

\* the flags and attribute of a map_to: nothing at all, a descriptor that is
\* not valid, the default block flags and the default page flags
MapArgInputs ==
    { <<{}, {}>>, <<{TABLE_OR_PAGE}, {}>>,
      <<default_block, MairNormal_attr_value>>, <<default_page, MairNormal_attr_value>> }

FlagInputs == { {}, default_block, default_page }

\* the pages whose entry a caller edits in place through get_entry_mut
EntryPageInputs(R) == { <<0, 0, 0, 1>>, <<R, R, R, R>>, <<R, R, 0, 1>> }

\* offsets within a page: 0, 0x123 and 0xfff
OffsetInputs == { {}, {0, 1, 5, 8}, 0..11 }

\* no map_to is in progress
Idle ==
    [at |-> "idle", page |-> <<0, 0, 0, 0>>, frame |-> {}, flags |-> {}, attr |-> {},
     level |-> 0, tbl |-> {}, ok |-> TRUE, created |-> FALSE, fresh |-> FALSE,
     mem0 |-> <<>>, alloc0 |-> <<>>]

\* dsb(ISHST) with a slip: the barrier waits for loads and stores, dsb ish
dsb_ish == <<"dsb ish">>

\* barrier::dsb(ISHST)
dsb_ishst == <<"dsb ishst">>

\* the barriers of a whole map_to: one dsb(ISHST) for each table it created
Barriers(n) == [i \in 1..n |-> dsb_ishst[1]]

NoCall ==
    [op |-> "none", page |-> <<0, 0, 0, 0>>, frame |-> {}, flags |-> {}, attr |-> {},
     res |-> "none", ret |-> {}, taken |-> 0, token |-> NoToken]

Init ==
    /\ ttbr = RootFrame
    /\ recursive_index \in RecursiveIndexInputs
    /\ mem \in InitialTables(recursive_index)
    /\ alloc \in {SubSeq(Pool, 1, k) : k \in 0..MaxAlloc}
    /\ debug \in BOOLEAN
    /\ halted = FALSE
    /\ last = NoCall
    /\ prev_map = NoCall
    /\ window_used = FALSE
    /\ nops = 0
    /\ unmapped = {}
    /\ insns = <<>>
    /\ pc = Idle

-----------------------------------------------------------------------------
(* Calls *)

\* a call of op with the given arguments ends with outcome o; it is one of at
\* most limit calls
CallUpTo(limit, op, page, frame, fl, at, o) ==
    /\ ~halted
    /\ pc = Idle
    /\ nops < limit
    /\ mem' = o.mem
    /\ alloc' = o.alloc
    /\ halted' = (o.res \in {"Panic", "DataAbort"})
    /\ last' = [op |-> op, page |-> page, frame |-> frame, flags |-> fl, attr |-> at,
                res |-> o.res, ret |-> o.ret, taken |-> Len(alloc) - Len(o.alloc),
                token |-> o.token]
    /\ prev_map' = IF last.op = "map_to" /\ last.res = "Ok" THEN last ELSE NoCall
    /\ window_used' = (window_used \/ p4_index(page) = recursive_index)
    /\ nops' = nops + 1
    /\ insns' = Barriers(Len(alloc) - Len(o.alloc))
    /\ UNCHANGED <<ttbr, recursive_index, debug, pc>>

\* a call of op, one of at most MaxOps
Call(op, page, frame, fl, at, o) ==
    /\ CallUpTo(MaxOps, op, page, frame, fl, at, o)
    /\ UNCHANGED unmapped

MapTo ==
    \E page \in PageInputs(recursive_index), frame \in FrameInputs, fa \in MapArgInputs :
        Call("map_to", page, frame, fa[1], fa[2],
             map_to(mem, alloc, ttbr, recursive_index, debug, page, frame, fa[1], fa[2]))

Unmap ==
    \E page \in PageInputs(recursive_index) :
        Call("unmap", page, {}, {}, {},
             unmap(mem, alloc, ttbr, recursive_index, page))

UpdateFlags ==
    \E page \in PageInputs(recursive_index), fl \in FlagInputs :
        Call("update_flags", page, {}, fl, {},
             update_flags(mem, alloc, ttbr, recursive_index, page, fl))

EntrySetFlags ==
    \E page \in EntryPageInputs(recursive_index) :
        Call("set_flags", page, {}, default_block, {},
             entry_set_flags(mem, alloc, ttbr, recursive_index, page, default_block))

EntrySetAttr ==
    \E page \in EntryPageInputs(recursive_index) :
        Call("set_attr", page, {}, {}, MairDevice_attr_value,
             entry_set_attr(mem, alloc, ttbr, recursive_index, page, MairDevice_attr_value))

EntrySetFrame ==
    \E page \in EntryPageInputs(recursive_index), fl \in {default_page, default_block} :
        Call("set_frame", page, {13}, fl, MairNormal_attr_value,
             entry_set_frame(mem, alloc, ttbr, recursive_index, debug, page, {13}, fl,
                             MairNormal_attr_value))

EntrySetBlock ==
    \E page \in EntryPageInputs(recursive_index), fl \in {default_page, default_block} :
        Call("set_block", page, {30, 13}, fl, MairNormal_attr_value,
             entry_set_block(mem, alloc, ttbr, recursive_index, debug, page, {30, 13}, fl,
                             MairNormal_attr_value, 30))

Next ==
    \/ MapTo
    \/ Unmap
    \/ UpdateFlags
    \/ EntrySetFlags
    \/ EntrySetAttr
    \/ EntrySetFrame
    \/ EntrySetBlock

Spec == Init /\ [][Next]_vars

\* the mapper's own mutating calls alone
NextMapper ==
    \/ MapTo
    \/ Unmap
    \/ UpdateFlags

SpecMapper == Init /\ [][NextMapper]_vars

\* map_to of one frame, 0x2000
MapFrame ==
    \E page \in PageInputs(recursive_index), fa \in MapArgInputs :
        Call("map_to", page, {13}, fa[1], fa[2],
             map_to(mem, alloc, ttbr, recursive_index, debug, page, {13}, fa[1], fa[2]))

\* the calls that build and take down mappings, for the read-only operations
NextTables ==
    \/ MapFrame
    \/ Unmap

SpecTables == Init /\ [][NextTables]_vars

\* frames 0x0, 0x2000, 0x4000_0000 (under the 1GiB block of the second address
\* space) and the frame whose address is that of the window page (R, R, 0, 1)
IdentityFrameInputs(R) == { {}, {13}, {30}, PageVA(<<R, R, 0, 1>>) }

IdentityMap ==
    \E frame \in IdentityFrameInputs(recursive_index), fa \in MapArgInputs :
        Call("identity_map", page_of(frame), frame, fa[1], fa[2],
             identity_map(mem, alloc, ttbr, recursive_index, debug, frame, fa[1], fa[2]))

NextIdentity ==
    \/ IdentityMap
    \/ Unmap

SpecIdentity == Init /\ [][NextIdentity]_vars

\* the calls that reach the asserting setters set_frame and set_block
NextSetters ==
    \/ MapFrame
    \/ EntrySetFrame
    \/ EntrySetBlock

SpecSetters == Init /\ [][NextSetters]_vars

-----------------------------------------------------------------------------
(* MapperFlush: the token of a mutating call and its discharge *)

\* tlb_invalidate_all with a slip: the final instruction barrier is missing
tlb_invalidate_all_no_isb == <<"dsb ishst", "tlbi vmalle1is", "dsb ish">>

\* asm::tlb_invalidate_all: the instructions of its asm! block, in order
tlb_invalidate_all == <<"dsb ishst", "tlbi vmalle1is", "dsb ish", "isb">>

\* MapperFlush::flush on target_arch = "aarch64"
MapperFlush_flush == tlb_invalidate_all

\* MapperFlush::ignore: an empty body
MapperFlush_ignore == <<>>

\* the caller consumes the token of the last call; flush and ignore take self
\* by value, so a token that was discharged is gone
Discharge(op, executed) ==
    /\ ~halted
    /\ pc = Idle
    /\ nops < MaxOps
    /\ last.token # NoToken
    /\ last' = [NoCall EXCEPT !.op = op, !.page = last.token[1], !.res = "Ok"]
    /\ insns' = executed
    /\ prev_map' = NoCall
    /\ nops' = nops + 1
    /\ UNCHANGED <<unmapped, mem, ttbr, recursive_index, alloc, debug, halted, window_used, pc>>

Flush == Discharge("flush", MapperFlush_flush)

Ignore == Discharge("ignore", MapperFlush_ignore)

NextFlush ==
    \/ MapFrame
    \/ Unmap
    \/ UpdateFlags
    \/ Flush
    \/ Ignore

SpecFlush == Init /\ [][NextFlush]_vars

-----------------------------------------------------------------------------
(* map_to step by step: what another observer of memory can see in between *)

StepPageInputs(R) == { <<0, 0, 0, 1>>, <<0, 0, 0, 0>>, <<0, 1, 0, 0>>, <<R, R, 0, 1>> }

StepArgInputs == { <<default_page, MairNormal_attr_value>>, <<{}, {}>> }

\* the index of a page into its table of the given level (4 is the top)
LevelIndex(page, level) == page[5 - level]

\* the recursive page of the table below the given level
next_table_page(R, page, level) ==
    IF level = 4 THEN p3_page(R, page)
    ELSE IF level = 3 THEN p2_page(R, page)
    ELSE p1_page(R, page)

\* map_to returns res, leaving memory m and allocator al
StepFinish(res, m, al, tok) ==
    /\ mem' = m
    /\ alloc' = al
    /\ halted' = (res \in {"Panic", "DataAbort"})
    /\ last' = [op |-> "map_to", page |-> pc.page, frame |-> pc.frame,
                flags |-> pc.flags, attr |-> pc.attr, res |-> res, ret |-> {},
                taken |-> Len(pc.alloc0) - Len(al), token |-> tok]
    /\ prev_map' = IF last.op = "map_to" /\ last.res = "Ok" THEN last ELSE NoCall
    /\ window_used' = (window_used \/ p4_index(pc.page) = recursive_index)
    /\ nops' = nops + 1
    /\ insns' = <<>>
    /\ pc' = Idle
    /\ UNCHANGED <<unmapped, ttbr, recursive_index, debug>>

\* map_to goes on at p, having executed the instructions executed
StepOn(m, al, p, executed) ==
    /\ mem' = m
    /\ alloc' = al
    /\ pc' = p
    /\ insns' = executed
    /\ UNCHANGED <<unmapped, ttbr, recursive_index, debug, halted, last, prev_map, window_used, nops>>

\* create_next_table returns the table below: map_to goes on in it
Descend(p, m, fresh) ==
    LET d == Deref(m, ttbr, next_table_page(recursive_index, p.page, p.level))
    IN  [p EXCEPT !.at = IF p.level = 2 THEN "leaf" ELSE "entry",
                  !.level = p.level - 1, !.tbl = d.frame, !.ok = d.ok,
                  !.created = FALSE, !.fresh = fresh]

\* map_to is called: p4 is the top-level table through its recursive address
MapBegin ==
    /\ ~halted
    /\ pc = Idle
    /\ nops < MaxOps
    /\ \E page \in StepPageInputs(recursive_index), fa \in StepArgInputs :
        LET d4 == Deref(mem, ttbr, p4_page(recursive_index, page))
        IN  StepOn(mem, alloc,
                   [Idle EXCEPT !.at = "entry", !.page = page, !.frame = {13},
                                !.flags = fa[1], !.attr = fa[2], !.level = 4,
                                !.tbl = d4.frame, !.ok = d4.ok,
                                !.mem0 = mem, !.alloc0 = alloc],
                   <<>>)

\* create_next_table, first part: an unused entry gets a frame of the allocator
TableEntry ==
    /\ pc.at = "entry"
    /\ LET idx == LevelIndex(pc.page, pc.level)
           e == Read(mem, pc.tbl, idx)
       IN  IF ~pc.ok THEN StepFinish("DataAbort", mem, alloc, NoToken)
           ELSE IF is_unused(e) /\ alloc = <<>>
           THEN StepFinish("FrameAllocationFailed", mem, alloc, NoToken)
           ELSE IF is_unused(e) /\ debug /\ ~set_frame_asserts(PageTableFlags_default)
           THEN StepFinish("Panic", mem, Tail(alloc), NoToken)
           ELSE IF is_unused(e)
           THEN StepOn(Write(mem, pc.tbl, idx,
                             set_frame(Head(alloc), PageTableFlags_default,
                                       MairNormal_attr_value)),
                       Tail(alloc), [pc EXCEPT !.at = "linked", !.created = TRUE], <<>>)
           ELSE StepOn(mem, alloc, [pc EXCEPT !.at = "linked", !.created = FALSE], <<>>)

\* the second part with a slip: every table is treated as just created
TableLinked_always_created ==
    /\ pc.at = "linked"
    /\ IF is_block(Read(mem, pc.tbl, LevelIndex(pc.page, pc.level)))
       THEN StepFinish("ParentEntryHugePage", mem, alloc, NoToken)
       ELSE StepOn(mem, alloc, [pc EXCEPT !.at = "barrier"], dsb_ishst)

\* create_next_table, second part: the block test, the pointer to the next
\* table and, for a table just created, the barrier
TableLinked ==
    /\ pc.at = "linked"
    /\ IF is_block(Read(mem, pc.tbl, LevelIndex(pc.page, pc.level)))
       THEN StepFinish("ParentEntryHugePage", mem, alloc, NoToken)
       ELSE IF pc.created
       THEN StepOn(mem, alloc, [pc EXCEPT !.at = "barrier"], dsb_ishst)
       ELSE StepOn(mem, alloc, Descend(pc, mem, FALSE), <<>>)

\* create_next_table, third part: the table just created is zeroed
TableZero ==
    /\ pc.at = "barrier"
    /\ LET d == Deref(mem, ttbr, next_table_page(recursive_index, pc.page, pc.level))
       IN  IF ~d.ok THEN StepFinish("DataAbort", mem, alloc, NoToken)
           ELSE StepOn(zero(mem, d.frame), alloc,
                       Descend(pc, zero(mem, d.frame), TRUE), <<>>)

\* map_to, the leaf
MapLeaf ==
    /\ pc.at = "leaf"
    /\ LET e == Read(mem, pc.tbl, p1_index(pc.page))
       IN  IF ~pc.ok THEN StepFinish("DataAbort", mem, alloc, NoToken)
           ELSE IF leaf_in_use(e) THEN StepFinish("PageAlreadyMapped", mem, alloc, NoToken)
           ELSE IF debug /\ ~set_frame_asserts(pc.flags)
           THEN StepFinish("Panic", mem, alloc, NoToken)
           ELSE StepFinish("Ok",
                           Write(mem, pc.tbl, p1_index(pc.page),
                                 set_frame(pc.frame, pc.flags, pc.attr)),
                           alloc, MapperFlush_new(pc.page))

NextSteps ==
    \/ MapBegin
    \/ TableEntry
    \/ TableLinked
    \/ TableZero
    \/ MapLeaf

SpecSteps == Init /\ [][NextSteps]_vars

-----------------------------------------------------------------------------
(* One PageTableEntry on its own: entry 0 of the top-level table *)

EntryFlagInputs ==
    { {}, {VALID}, {TABLE_OR_PAGE}, default_block, default_page, PageTableFlags_all }

EntryAttrInputs ==
    { {}, MairNormal_attr_value, MairDevice_attr_value,
      MairNormalNonCacheable_attr_value, MEMORY_ATTR_MASK }

EntryAddrInputs == { {}, {13}, {12, 47} }

\* entry words: an address, flags, an attribute, and bits 48 and 50, which are
\* neither address, attribute nor a named flag
EntryInputs ==
    {a \cup f \cup t \cup x : a \in EntryAddrInputs, f \in EntryFlagInputs,
                              t \in EntryAttrInputs, x \in { {}, {48, 50} }}

Entry0(m) == Read(m, RootFrame, 0)

InitEntry ==
    /\ ttbr = RootFrame
    /\ recursive_index \in RecursiveIndexInputs
    /\ mem \in {Write(<<>>, RootFrame, 0, e) : e \in EntryInputs}
    /\ alloc = <<>>
    /\ debug = FALSE
    /\ halted = FALSE
    /\ last = NoCall
    /\ prev_map = NoCall
    /\ window_used = FALSE
    /\ nops = 0
    /\ unmapped = {}
    /\ insns = <<>>
    /\ pc = Idle

\* a method of the entry is called and leaves the word e
EntryCall(op, fl, at, e) ==
    /\ nops < MaxOps
    /\ mem' = Write(mem, RootFrame, 0, e)
    /\ last' = [NoCall EXCEPT !.op = op, !.flags = fl, !.attr = at, !.res = "Ok"]
    /\ nops' = nops + 1
    /\ UNCHANGED <<unmapped, ttbr, recursive_index, alloc, debug, halted, prev_map, window_used,
                   insns, pc>>

SetFlags ==
    \E fl \in EntryFlagInputs :
        EntryCall("set_flags", fl, {}, set_flags(Entry0(mem), fl))

SetAttr ==
    \E at \in EntryAttrInputs :
        EntryCall("set_attr", {}, at, set_attr(Entry0(mem), at))

NextEntry ==
    \/ SetFlags
    \/ SetAttr

SpecEntry == InitEntry /\ [][NextEntry]_vars

\* the addresses given to set_block: 0, 0x4020_2020, 0x8000_2000_1000,
\* 0xc010_0000 and 0x1_0000_4000_0000, which lies above the 48 bits of an
\* output address
BlockAddrInputs == { {}, {5, 13, 21, 30}, {12, 29, 47}, {20, 30, 31}, {30, 48} }

\* the page sizes of set_block::<S>: S::SIZE is 2^21 or 2^30
BlockSizeInputs == {21, 30}

\* one of the setters that build a whole entry word is called with address a
\* and leaves memory m1
EntryStore(op, a, fl, at, m1) ==
    /\ nops < MaxOps
    /\ mem' = m1
    /\ last' = [NoCall EXCEPT !.op = op, !.frame = a, !.flags = fl, !.attr = at,
                              !.res = "Ok"]
    /\ nops' = nops + 1
    /\ UNCHANGED <<unmapped, ttbr, recursive_index, alloc, debug, halted, prev_map, window_used,
                   insns, pc>>

StoreAddr ==
    \E a \in EntryAddrInputs, fl \in EntryFlagInputs, at \in EntryAttrInputs :
        EntryStore("set_addr", a, fl, at, Write(mem, RootFrame, 0, set_addr(a, fl, at)))

StoreFrame ==
    \E a \in EntryAddrInputs, fl \in EntryFlagInputs, at \in EntryAttrInputs :
        EntryStore("set_frame", a, fl, at, Write(mem, RootFrame, 0, set_frame(a, fl, at)))

StoreBlock ==
    \E a \in BlockAddrInputs, fl \in EntryFlagInputs, at \in EntryAttrInputs,
       sizeBits \in BlockSizeInputs :
        EntryStore(IF sizeBits = 21 THEN "set_block 2MiB" ELSE "set_block 1GiB",
                   a, fl, at, Write(mem, RootFrame, 0, set_block(a, fl, at, sizeBits)))

NextStore ==
    \/ StoreAddr
    \/ StoreFrame
    \/ StoreBlock
    \/ SetAttr

SpecStore == InitEntry /\ [][NextStore]_vars

-----------------------------------------------------------------------------
(* The injected allocator: the caller of map_to passes it with every call *)

\* no entry in memory references frame f
NotLinked(f) == \A c \in DOMAIN mem : addr(mem[c]) # f

\* the allocator passed to the next map_to has frames again: the frames of the
\* pool that no table references
AllocatorRefill ==
    /\ ~halted
    /\ pc = Idle
    /\ nops < MaxOps
    /\ alloc = <<>>
    /\ SelectSeq(Pool, NotLinked) # <<>>
    /\ alloc' = SelectSeq(Pool, NotLinked)
    /\ UNCHANGED <<unmapped, mem, ttbr, recursive_index, debug, halted, last, prev_map, window_used,
                   nops, insns, pc>>

NextRefill ==
    \/ MapFrame
    \/ Unmap
    \/ AllocatorRefill

SpecRefill == Init /\ [][NextRefill]_vars

-----------------------------------------------------------------------------
(* Sequences of calls that unmap a page and map it again *)

\* the longest sequence of calls followed
MaxSeqOps == MaxOps + 2

\* pages: 0x1000, its sibling 0x0, and the page of the recursive window whose
\* leaf entry is entry 0 of the level-3 table of slot 0, the table link on the
\* path of the two
SeqPageInputs(R) == { <<0, 0, 0, 1>>, <<0, 0, 0, 0>>, <<R, R, 0, 0>> }

\* the flags and attribute of a map_to: nothing at all, or the default page
\* flags
SeqArgInputs == { <<{}, {}>>, <<default_page, MairNormal_attr_value>> }

\* a call of op, one of at most MaxSeqOps; a successful unmap makes the page
\* unmapped until a successful map_to of it
SeqCall(op, page, frame, fl, at, o) ==
    /\ CallUpTo(MaxSeqOps, op, page, frame, fl, at, o)
    /\ unmapped' = IF op = "unmap" /\ o.res = "Ok" THEN unmapped \cup {page}
                   ELSE IF op = "map_to" /\ o.res = "Ok" THEN unmapped \ {page}
                   ELSE unmapped

SeqMapTo ==
    \E page \in SeqPageInputs(recursive_index), frame \in FrameInputs, fa \in SeqArgInputs :
        SeqCall("map_to", page, frame, fa[1], fa[2],
                map_to(mem, alloc, ttbr, recursive_index, debug, page, frame, fa[1], fa[2]))

SeqUnmap ==
    \E page \in SeqPageInputs(recursive_index) :
        SeqCall("unmap", page, {}, {}, {},
                unmap(mem, alloc, ttbr, recursive_index, page))

SeqUpdateFlags ==
    \E page \in SeqPageInputs(recursive_index), fl \in {default_block, default_page} :
        SeqCall("update_flags", page, {}, fl, {},
                update_flags(mem, alloc, ttbr, recursive_index, page, fl))

NextRemap ==
    \/ SeqMapTo
    \/ SeqUnmap
    \/ SeqUpdateFlags

\* the sequences start with an allocator that holds the whole pool
InitRemap ==
    /\ Init
    /\ alloc = Pool

SpecRemap == InitRemap /\ [][NextRemap]_vars

-----------------------------------------------------------------------------
(* cache.rs: cache maintenance over a range of virtual addresses *)

\* the width of usize in the model: addresses are 0 .. 2^UsizeBits - 1
UsizeBits == 5

UsizeMax == 2^UsizeBits - 1

\* CTR_EL0::DminLine / IminLine as read by cache_line_size()
CacheLineSizeInputs == {0, 1}

\* let line_size = 4 << Self::cache_line_size()
line_size(ctr) == 4 * 2^ctr

\* start & !(line_size - 1)
flush_first_line(start, line) == start - (start % line)

\* the shareability domains given to flush_range
DomainInputs == {"ish", "sy"}

\* Self::flush_line_op(addr)
flush_line_op(a) == <<"line", a>>

\* dsb(domain)
dsb(domain) == <<"dsb " \o domain, 0>>

isb == <<"isb", 0>>

\* the log of executed instructions keeps the line operations of one pass over
\* the address space with its smallest line, one more, and the two barriers
MaxLogged == (2^UsizeBits) \div 4 + 3

Log(executed, op) == IF Len(executed) < MaxLogged THEN Append(executed, op) ELSE executed

\* flush_range(start, end, domain) has been called
InitCache ==
    /\ ttbr = RootFrame
    /\ recursive_index \in RecursiveIndexInputs
    /\ mem = <<>>
    /\ alloc = <<>>
    /\ debug \in BOOLEAN
    /\ halted = FALSE
    /\ last = NoCall
    /\ prev_map = NoCall
    /\ window_used = FALSE
    /\ nops = 0
    /\ unmapped = {}
    /\ insns = <<>>
    /\ pc \in [at : {"called"}, start : 0..UsizeMax, end : 0..UsizeMax,
               ctr : CacheLineSizeInputs, domain : DomainInputs,
               line : {0}, addr : {0}]

CacheStep(p, executed, stop) ==
    /\ ~halted
    /\ pc' = p
    /\ insns' = executed
    /\ halted' = stop
    /\ UNCHANGED <<unmapped, mem, ttbr, recursive_index, alloc, debug, last, prev_map, window_used,
                   nops>>

\* let line_size = ...; let mut addr = start & !(line_size - 1)
FlushEnter ==
    /\ pc.at = "called"
    /\ CacheStep([pc EXCEPT !.at = "loop", !.line = line_size(pc.ctr),
                            !.addr = flush_first_line(pc.start, line_size(pc.ctr))],
                 insns, FALSE)

\* while addr < end { Self::flush_line_op(addr); addr += line_size; }
\* the addition overflows usize past UsizeMax: a panic in a build with debug
\* assertions (overflow checks), a wrap-around otherwise
FlushLine ==
    /\ pc.at = "loop"
    /\ pc.addr < pc.end
    /\ IF pc.addr + pc.line > UsizeMax /\ debug
       THEN CacheStep([pc EXCEPT !.at = "panicked"], Log(insns, flush_line_op(pc.addr)), TRUE)
       ELSE CacheStep([pc EXCEPT !.addr = (pc.addr + pc.line) % (2^UsizeBits)],
                      Log(insns, flush_line_op(pc.addr)), FALSE)

\* the loop ends; unsafe { dsb(domain) }
FlushDsb ==
    /\ pc.at = "loop"
    /\ ~(pc.addr < pc.end)
    /\ CacheStep([pc EXCEPT !.at = "dsb"], Log(insns, dsb(pc.domain)), FALSE)

\* unsafe { isb() }; return
FlushIsb ==
    /\ pc.at = "dsb"
    /\ CacheStep([pc EXCEPT !.at = "done"], Log(insns, isb), FALSE)

NextCache ==
    \/ FlushEnter
    \/ FlushLine
    \/ FlushDsb
    \/ FlushIsb

SpecCache == InitCache /\ [][NextCache]_vars

\* the program runs on: a step that can be taken is taken
SpecCacheLive == SpecCache /\ WF_vars(NextCache)

-----------------------------------------------------------------------------
(* Properties *)

R == recursive_index

TranslatePageNow(page) == translate_page(mem, alloc, ttbr, R, page)

GetEntryNow(page) == get_entry(mem, alloc, ttbr, R, page)

LastMapOk == last.op = "map_to" /\ last.res = "Ok"

\* the last call was unmap(P), directly after a successful map_to(P, ...)
UnmapAfterMap ==
    /\ last.op = "unmap"
    /\ prev_map.op = "map_to"
    /\ prev_map.page = last.page

\* C1 as stated: after a successful map_to(P, F, flags, attr), translate_page(P)
\* yields F, whatever flags and attribute were passed.
C1_AsStated ==
    LastMapOk =>
        /\ TranslatePageNow(last.page).res = "Ok"
        /\ TranslatePageNow(last.page).ret = last.frame

\* C1 amended: after a successful map_to(P, F, flags, attr) that wrote a descriptor
\* which is not all zero, translate_page(P) yields exactly F.
C1_MapThenTranslate ==
    (LastMapOk /\ set_frame(last.frame, last.flags, last.attr) # {}) =>
        /\ TranslatePageNow(last.page).res = "Ok"
        /\ TranslatePageNow(last.page).ret = last.frame

C1_Witness ==
    /\ LastMapOk
    /\ last.frame = {13}
    /\ last.flags = {TABLE_OR_PAGE}
    /\ TranslatePageNow(last.page).res = "Ok"
    /\ TranslatePageNow(last.page).ret = {13}

\* C2 as stated: unmap(P) directly after a successful map_to(P, F, flags, attr)
\* succeeds and returns F, for every flags value map_to accepted.
C2_AsStated ==
    UnmapAfterMap => (last.res = "Ok" /\ last.ret = prev_map.frame)

\* C2 amended: unmap(P) directly after a successful map_to(P, F, flags, attr) whose
\* flags contain VALID and TABLE_OR_PAGE succeeds and returns F.
C2_UnmapReturnsFrame ==
    (UnmapAfterMap /\ {VALID, TABLE_OR_PAGE} \subseteq prev_map.flags) =>
        (last.res = "Ok" /\ last.ret = prev_map.frame)

C2_Witness ==
    /\ UnmapAfterMap
    /\ {VALID, TABLE_OR_PAGE} \subseteq prev_map.flags
    /\ prev_map.frame = {13}
    /\ last.res = "Ok"
    /\ last.ret = {13}

\* C3 as stated: after a successful map_to(P, ...) and a successful unmap(P),
\* get_entry(P) reports PageNotMapped.
C3_AsStated ==
    (UnmapAfterMap /\ last.res = "Ok") => GetEntryNow(last.page).res = "PageNotMapped"

\* C3 amended: after a successful map_to(P, ...) and a successful unmap(P),
\* get_entry(P) succeeds and returns the leaf entry of P, which is unused (all
\* zero); it is translate_page(P) that reports PageNotMapped.
C3_UnmapLeavesUnusedLeaf ==
    (UnmapAfterMap /\ last.res = "Ok") =>
        /\ GetEntryNow(last.page).res = "Ok"
        /\ is_unused(Read(mem, GetEntryNow(last.page).tbl, GetEntryNow(last.page).idx))
        /\ TranslatePageNow(last.page).res = "PageNotMapped"

C3_Witness ==
    /\ UnmapAfterMap
    /\ last.res = "Ok"
    /\ last.page = <<0, 0, 0, 1>>
    /\ GetEntryNow(last.page).res = "Ok"
    /\ TranslatePageNow(last.page).res = "PageNotMapped"

\* a call has just been made: last' describes it, the unprimed state precedes it
Called(op) == nops' = nops + 1 /\ last'.op = op

\* C4: map_to(P, F2, ...) on a page P that translate_page maps to F1 returns
\* PageAlreadyMapped and changes nothing: every descriptor is bit-for-bit the
\* same and translate_page(P) still returns F1.
C4_AlreadyMappedUntouched ==
    [][ (Called("map_to") /\ TranslatePageNow(last'.page).res = "Ok") =>
            /\ last'.res = "PageAlreadyMapped"
            /\ mem' = mem
            /\ alloc' = alloc
            /\ translate_page(mem', alloc', ttbr, R, last'.page)
                    = TranslatePageNow(last'.page) ]_vars

C4_Witness ==
    /\ last.op = "map_to"
    /\ last.res = "PageAlreadyMapped"
    /\ prev_map.op = "map_to"
    /\ prev_map.page = last.page
    /\ prev_map.frame # last.frame
    /\ TranslatePageNow(last.page).res = "Ok"
    /\ TranslatePageNow(last.page).ret = prev_map.frame

\* the recursive slot is a valid table descriptor of the top-level table's frame
SlotOk(m) ==
    /\ frame_res(Read(m, ttbr, R)) = "Ok"
    /\ frame_of(Read(m, ttbr, R)) = ttbr

\* only the recursive slot of the top-level table is in use
EmptySpace == {c \in DOMAIN mem : c[1] = ttbr} = {<<ttbr, R>>}

\* two pages under the same level-3, level-2 and level-1 tables
Siblings(p, q) == p # q /\ p[1] = q[1] /\ p[2] = q[2] /\ p[3] = q[3]

UnderBlock1GiB(m, page) ==
    /\ IsTableDesc(Read(m, ttbr, p4_index(page)))
    /\ IsBlockDesc(Read(m, addr(Read(m, ttbr, p4_index(page))), p3_index(page)))

\* C6: with the recursive slot in place, map_to of a page whose level-3 entry is a
\* 1GiB block (VALID set, TABLE_OR_PAGE clear) fails with ParentEntryHugePage.
C6_BlockParent ==
    [][ (Called("map_to") /\ SlotOk(mem) /\ UnderBlock1GiB(mem, last'.page)) =>
            last'.res = "ParentEntryHugePage" ]_vars

C6_Witness ==
    /\ last.op = "map_to"
    /\ last.page = <<0, 1, 0, 0>>
    /\ UnderBlock1GiB(mem, last.page)
    /\ last.res = "ParentEntryHugePage"

\* C7 as stated: after any sequence of map_to, unmap and update_flags calls on any
\* pages, the recursive slot still holds the address of the top-level table.
C7_AsStated == addr(Read(mem, ttbr, R)) = ttbr

\* C7 amended: after any sequence of map_to, unmap and update_flags calls on pages
\* outside the recursive window (p4 index other than R), the recursive slot still
\* references the top-level table's frame.
C7_SlotKeptOutsideWindow == ~window_used => SlotOk(mem)

C7_Witness ==
    /\ ~window_used
    /\ last.op = "unmap"
    /\ last.res = "Ok"
    /\ prev_map.taken = 3
    /\ SlotOk(mem)

\* the pages of claim C8: every combination of the indices 0, 1 and R
C8Pages == {<<a, b, c, d>> : a \in {0, 1, R}, b \in {0, 1, R}, c \in {0, 1, R}, d \in {0, 1, R}}

\* the entries a walk from the root meets for a page: root, level 3, level 2
Root4(page) == Read(mem, ttbr, p4_index(page))

Level3(page) == Read(mem, addr(Root4(page)), p3_index(page))

Level2(page) == Read(mem, addr(Level3(page)), p2_index(page))

\* C8: with the recursive slot in place and the intermediate tables of a page P
\* present, the recursive pages (R,i4,i3,i2), (R,R,i4,i3), (R,R,R,i4), (R,R,R,R)
\* resolve, by a four-level walk, to the frames of the level-1, level-2 and
\* level-3 tables of P and of the top-level table.
C8_RecursiveAddressing ==
    \A page \in C8Pages :
        ( /\ SlotOk(mem)
          /\ IsTableDesc(Root4(page))
          /\ IsTableDesc(Level3(page))
          /\ IsTableDesc(Level2(page)) ) =>
            /\ Deref(mem, ttbr, p1_page(R, page)) = Reached(addr(Level2(page)))
            /\ Deref(mem, ttbr, p2_page(R, page)) = Reached(addr(Level3(page)))
            /\ Deref(mem, ttbr, p3_page(R, page)) = Reached(addr(Root4(page)))
            /\ Deref(mem, ttbr, p4_page(R, page)) = Reached(ttbr)

C8_Witness ==
    /\ LastMapOk
    /\ last.page = <<0, 1, 0, 0>>
    /\ last.taken = 3
    /\ SlotOk(mem)
    /\ IsTableDesc(Level2(last.page))
    /\ Deref(mem, ttbr, p1_page(R, last.page)) = Reached(addr(Level2(last.page)))
    /\ addr(Level2(last.page)) # addr(Level3(last.page))

\* an entry is unused, a block or a table-or-page descriptor
WellFormed(e) == e = {} \/ VALID \in e

AllWellFormed(m) == \A c \in DOMAIN m : WellFormed(m[c])

\* C9 as stated: in every reachable state every entry is unused (all zero), a
\* block (VALID, no TABLE_OR_PAGE) or table-or-page (VALID and TABLE_OR_PAGE).
C9_AsStated == AllWellFormed(mem)

\* the call just made passed flags that contain VALID, or was set_attr on an
\* entry in use, or was unmap
KeepsValid ==
    /\ last'.op \in {"map_to", "update_flags", "set_flags", "set_frame", "set_block"}
            => VALID \in last'.flags
    /\ last'.op = "set_attr" =>
            (GetEntryNow(last'.page).res = "Ok" =>
                ~is_unused(Read(mem, GetEntryNow(last'.page).tbl,
                                GetEntryNow(last'.page).idx)))

\* C9 amended: a call whose flags contain VALID (and set_attr on an entry in use,
\* and unmap) takes a state in which every entry is unused, block or
\* table-or-page to another such state.
C9_ValidFlagsKeepEntriesWellFormed ==
    [][ (nops' = nops + 1 /\ AllWellFormed(mem) /\ KeepsValid) =>
            AllWellFormed(mem') ]_vars

C9_Witness ==
    /\ LastMapOk
    /\ last.flags = default_block
    /\ last.taken = 3
    /\ AllWellFormed(mem)

\* C10: for every page P that translate_page maps to F and every offset o,
\* translate_addr(P.base + o) is F.base + o; when translate_page reports
\* PageNotMapped or InvalidFrameAddress, translate_addr gives None.
C10_TranslateAddr ==
    \A page \in PageInputs(R) :
        LET t == TranslatePageNow(page)
        IN  \A o \in OffsetInputs :
                LET a == translate_addr(mem, alloc, ttbr, R, PageVA(page) \cup o)
                IN  /\ t.res = "Ok" => a = Some(t.ret \cup o)
                    /\ t.res \in {"PageNotMapped", "InvalidFrameAddress"} => a = None

\* page 0x1000 -> frame 0x2000 with {VALID, TABLE_OR_PAGE, AF}, normal cacheable:
\* translate_addr(0x1123) = 0x2123
C10_Witness ==
    /\ LastMapOk
    /\ last.page = <<0, 0, 0, 1>>
    /\ last.frame = {13}
    /\ last.flags = {VALID, TABLE_OR_PAGE, AF}
    /\ last.attr = MairNormal_attr_value
    /\ translate_addr(mem, alloc, ttbr, R, {0, 1, 5, 8, 12}) = Some({0, 1, 5, 8, 13})
    /\ translate_addr(mem, alloc, ttbr, R, {0, 1, 5, 8, 12, 13}) = None

\* C11: set_flags(f) leaves flags() = f and attr(), addr() as they were;
\* set_attr(a) leaves attr() = a and flags(), addr() as they were.
C11_FlagsAttrIndependent ==
    [][ /\ Called("set_flags") =>
            /\ flags(Entry0(mem')) = last'.flags
            /\ attr(Entry0(mem')) = attr(Entry0(mem))
            /\ addr(Entry0(mem')) = addr(Entry0(mem))
        /\ Called("set_attr") =>
            /\ attr(Entry0(mem')) = last'.attr
            /\ flags(Entry0(mem')) = flags(Entry0(mem))
            /\ addr(Entry0(mem')) = addr(Entry0(mem)) ]_vars

\* set_attr(device) has replaced another attribute and set_flags before it
\* replaced other flags, on an entry with an address
C11_Witness ==
    /\ nops = 2
    /\ last.op = "set_attr"
    /\ last.attr = MairDevice_attr_value
    /\ Entry0(mem) = {13} \cup default_page \cup MairDevice_attr_value

\* C12: frame() is Ok, with the frame at addr(), exactly when VALID and
\* TABLE_OR_PAGE are set; FrameNotPresent whenever VALID is clear; HugeFrame when
\* VALID is set and TABLE_OR_PAGE is clear.
C12_FrameResult ==
    /\ (frame_res(Entry0(mem)) = "Ok") <=> (VALID \in Entry0(mem) /\ TABLE_OR_PAGE \in Entry0(mem))
    /\ frame_res(Entry0(mem)) = "Ok" => frame_of(Entry0(mem)) = Entry0(mem) \cap (12..47)
    /\ VALID \notin Entry0(mem) => frame_res(Entry0(mem)) = "FrameNotPresent"
    /\ (VALID \in Entry0(mem) /\ TABLE_OR_PAGE \notin Entry0(mem)) =>
            frame_res(Entry0(mem)) = "HugeFrame"

\* an entry in use with VALID and TABLE_OR_PAGE both clear, left by set_flags
C12_Witness ==
    /\ last.op = "set_flags"
    /\ Entry0(mem) # {}
    /\ VALID \notin Entry0(mem)
    /\ TABLE_OR_PAGE \notin Entry0(mem)
    /\ frame_res(Entry0(mem)) = "FrameNotPresent"

\* the frames map_to has to ask for on the way to the leaf of a page: one for
\* the first unused non-leaf entry on the path and one for each level below it
FramesNeeded(m, page) ==
    LET e4 == Read(m, ttbr, p4_index(page))
        e3 == Read(m, addr(e4), p3_index(page))
        e2 == Read(m, addr(e3), p2_index(page))
    IN  IF is_unused(e4) THEN 3
        ELSE IF ~IsTableDesc(e4) THEN 0
        ELSE IF is_unused(e3) THEN 2
        ELSE IF ~IsTableDesc(e3) THEN 0
        ELSE IF is_unused(e2) THEN 1
        ELSE 0

\* C13: with the recursive slot in place, map_to(P, F, ...) fails with
\* FrameAllocationFailed exactly when the allocator holds fewer frames than the
\* unused non-leaf entries on P's path ask for; then translate_page(P) does not
\* yield F and no flush token is returned.
C13_FrameAllocationFailed ==
    [][ (Called("map_to") /\ SlotOk(mem)) =>
            /\ (last'.res = "FrameAllocationFailed")
                    <=> (Len(alloc) < FramesNeeded(mem, last'.page))
            /\ last'.res = "FrameAllocationFailed" =>
                    /\ last'.token = NoToken
                    /\ translate_page(mem', alloc', ttbr, R, last'.page).res # "Ok" ]_vars

\* the second of the three allocations failed: one table was linked, no leaf
C13_Witness ==
    /\ last.op = "map_to"
    /\ last.res = "FrameAllocationFailed"
    /\ last.taken = 1
    /\ IsTableDesc(Root4(last.page))
    /\ TranslatePageNow(last.page).res = "PageNotMapped"

\* unmap reports PageNotMapped for a non-leaf entry of the page: the first entry
\* on the path that is not a table descriptor has VALID clear
NonLeafNotPresent(page) ==
    \/ frame_res(Root4(page)) = "FrameNotPresent"
    \/ /\ frame_res(Root4(page)) = "Ok"
       /\ frame_res(Level3(page)) = "FrameNotPresent"
    \/ /\ frame_res(Root4(page)) = "Ok"
       /\ frame_res(Level3(page)) = "Ok"
       /\ frame_res(Level2(page)) = "FrameNotPresent"

\* C14 as stated: in every reachable state and for every page, unmap fails with
\* ParentEntryHugePage iff get_entry fails with ParentEntryHugePage, and fails
\* with PageNotMapped because of a non-leaf entry iff get_entry fails with
\* PageNotMapped.
C14_AsStated ==
    \A page \in PageInputs(R) :
        LET u == unmap(mem, alloc, ttbr, R, page)
            g == GetEntryNow(page)
        IN  /\ (u.res = "ParentEntryHugePage") <=> (g.res = "ParentEntryHugePage")
            /\ (u.res = "PageNotMapped" /\ NonLeafNotPresent(page))
                    <=> (g.res = "PageNotMapped")

\* the leaf entry of a page, by a walk from the root
Leaf1(m, page) ==
    Read(m, addr(Read(m, addr(Read(m, addr(Read(m, ttbr, p4_index(page))),
                                   p3_index(page))), p2_index(page))), p1_index(page))

\* C15 as stated: update_flags(P, f) fails with PageNotMapped and changes nothing
\* when the leaf or a non-leaf entry of P is unused; otherwise get_entry(P) then
\* has flags f, address and attribute of the leaf are unchanged and
\* translate_page(P) yields the same frame as before.
C15_AsStated ==
    [][ Called("update_flags") =>
            IF is_unused(Leaf1(mem, last'.page))
            THEN last'.res = "PageNotMapped" /\ mem' = mem
            ELSE /\ get_entry(mem', alloc', ttbr, R, last'.page).res = "Ok"
                 /\ flags(Leaf1(mem', last'.page)) = last'.flags
                 /\ addr(Leaf1(mem', last'.page)) = addr(Leaf1(mem, last'.page))
                 /\ attr(Leaf1(mem', last'.page)) = attr(Leaf1(mem, last'.page))
                 /\ translate_page(mem', alloc', ttbr, R, last'.page).ret
                        = TranslatePageNow(last'.page).ret
                 /\ translate_page(mem', alloc', ttbr, R, last'.page).res
                        = TranslatePageNow(last'.page).res ]_vars

\* the entry get_entry(P) returns a reference to, when it returns Ok
EntryNow(page) == Read(mem, GetEntryNow(page).tbl, GetEntryNow(page).idx)

\* C15 amended: update_flags(P, f) fails with PageNotMapped, changes nothing and
\* returns no token when get_entry(P) reports PageNotMapped or returns an unused
\* entry; when get_entry(P) returns an entry in use, it succeeds and rewrites that
\* entry alone: its flags become f, its address and attribute stay; if the new
\* word is not zero and P is outside the recursive window, translate_page(P)
\* yields the same frame as before.
C15_UpdateFlagsEffect ==
    [][ Called("update_flags") =>
            /\ (GetEntryNow(last'.page).res = "PageNotMapped"
                    \/ (GetEntryNow(last'.page).res = "Ok" /\ is_unused(EntryNow(last'.page))))
                => /\ last'.res = "PageNotMapped"
                   /\ mem' = mem
                   /\ last'.token = NoToken
            /\ (GetEntryNow(last'.page).res = "Ok" /\ ~is_unused(EntryNow(last'.page)))
                => /\ last'.res = "Ok"
                   /\ mem' = Write(mem, GetEntryNow(last'.page).tbl,
                                   GetEntryNow(last'.page).idx,
                                   last'.flags \cup addr(EntryNow(last'.page))
                                               \cup attr(EntryNow(last'.page)))
                   /\ ( /\ p4_index(last'.page) # R
                        /\ Read(mem', GetEntryNow(last'.page).tbl,
                                GetEntryNow(last'.page).idx) # {} )
                        => /\ translate_page(mem', alloc', ttbr, R, last'.page).res = "Ok"
                           /\ translate_page(mem', alloc', ttbr, R, last'.page).ret
                                = TranslatePageNow(last'.page).ret ]_vars

\* update_flags replaced the flags of a page mapped by the call before it
C15_Witness ==
    /\ last.op = "update_flags"
    /\ last.res = "Ok"
    /\ last.flags = default_block
    /\ prev_map.page = last.page
    /\ prev_map.flags = default_page
    /\ p4_index(last.page) # R
    /\ Leaf1(mem, last.page) = prev_map.frame \cup default_block \cup prev_map.attr
    /\ TranslatePageNow(last.page).ret = prev_map.frame

\* the non-leaf entries on the path of a page are the same in m1 and m2
SameLinks(m1, m2, page) ==
    /\ Read(m2, ttbr, p4_index(page)) = Read(m1, ttbr, p4_index(page))
    /\ Read(m2, addr(Read(m1, ttbr, p4_index(page))), p3_index(page))
         = Read(m1, addr(Read(m1, ttbr, p4_index(page))), p3_index(page))
    /\ Read(m2, addr(Level3(page)), p2_index(page)) = Level2(page)

\* C16 as stated: a successful unmap(P) changes exactly one descriptor, the leaf
\* of P, which becomes zero; the intermediate tables on P's path stay linked; no
\* mapper operation gives a frame back.
C16_AsStated ==
    [][ /\ (Called("unmap") /\ last'.res = "Ok") =>
                /\ Leaf1(mem, last'.page) # {}
                /\ mem' = Write(mem, addr(Level2(last'.page)), p1_index(last'.page), {})
                /\ SameLinks(mem, mem', last'.page)
        /\ nops' = nops + 1 =>
                \E k \in 0..Len(alloc) : alloc' = SubSeq(alloc, k + 1, Len(alloc)) ]_vars

\* C16 amended: a successful unmap(P) changes exactly one descriptor, the leaf of
\* P, which becomes zero; for P outside the recursive window the intermediate
\* tables on P's path stay linked; no mapper operation gives a frame back.
C16_UnmapClearsLeafOnly ==
    [][ /\ (Called("unmap") /\ last'.res = "Ok") =>
                /\ Leaf1(mem, last'.page) # {}
                /\ mem' = Write(mem, addr(Level2(last'.page)), p1_index(last'.page), {})
                /\ p4_index(last'.page) # R => SameLinks(mem, mem', last'.page)
        /\ nops' = nops + 1 =>
                \E k \in 0..Len(alloc) : alloc' = SubSeq(alloc, k + 1, Len(alloc)) ]_vars

\* unmap of the only page of three tables made for it: the level-1 table is
\* empty and still linked, the allocator is as map_to left it
C16_Witness ==
    /\ UnmapAfterMap
    /\ last.res = "Ok"
    /\ prev_map.taken = 3
    /\ p4_index(last.page) # R
    /\ IsTableDesc(Root4(last.page))
    /\ IsTableDesc(Level3(last.page))
    /\ IsTableDesc(Level2(last.page))
    /\ {c \in DOMAIN mem : c[1] = addr(Level2(last.page))} = {}
    /\ last.taken = 0

Min(a, b) == IF a < b THEN a ELSE b

\* C20: one map_to call takes at most 3 frames, whether it succeeds or fails;
\* with the recursive slot in place it takes one frame per unused non-leaf entry
\* it reaches, as far as the allocator has frames, and none when the three
\* intermediate tables of the page exist.
C20_AtMostThreeFrames ==
    [][ Called("map_to") =>
            /\ last'.taken <= 3
            /\ SlotOk(mem) =>
                    last'.taken = Min(FramesNeeded(mem, last'.page), Len(alloc))
            /\ ( /\ SlotOk(mem)
                 /\ IsTableDesc(Root4(last'.page))
                 /\ IsTableDesc(Level3(last'.page))
                 /\ IsTableDesc(Level2(last'.page)) ) => last'.taken = 0 ]_vars

\* a map_to that found the level-3 table and made the two below it
C20_Witness ==
    /\ LastMapOk
    /\ last.taken = 2
    /\ last.page = <<0, 0, 0, 1>>
    /\ Len(alloc) = 1

\* C18 as stated: after a successful map_to(P, F, ...) whose token has not been
\* discharged, the table walk of another translation consumer does not find P
\* mapped to F.
C18_AsStated ==
    (LastMapOk /\ last.token # NoToken) =>
        Deref(mem, ttbr, last.page) # Reached(last.frame)

\* C18 amended: every successful map_to, unmap and update_flags returns a token
\* bound to exactly its page and a failed call returns none; a successful map_to
\* with VALID and TABLE_OR_PAGE in its flags has stored the descriptor when it
\* returns, so a table walk finds P mapped to F before any discharge.
C18_TokenBoundToPage ==
    [][ (nops' = nops + 1 /\ last'.op \in {"map_to", "unmap", "update_flags"}) =>
            /\ last'.res = "Ok" => last'.token = <<last'.page>>
            /\ last'.res # "Ok" => last'.token = NoToken
            /\ ( /\ last'.op = "map_to"
                 /\ last'.res = "Ok"
                 /\ VALID \in last'.flags
                 /\ TABLE_OR_PAGE \in last'.flags ) =>
                    Deref(mem', ttbr, last'.page) = Reached(last'.frame) ]_vars

\* unmap returned the token of its page after map_to had returned one, ignored
C18_Witness ==
    /\ last.op = "unmap"
    /\ last.res = "Ok"
    /\ last.token = <<last.page>>
    /\ last.page = <<0, 1, 0, 0>>
    /\ nops = MaxOps

\* C19: flush() consumes the token and executes dsb ishst, tlbi vmalle1is,
\* dsb ish, isb, in this order; ignore() consumes the token and executes
\* nothing; neither changes the tables; a discharge needs a token and leaves
\* none, so no token is discharged twice.
C19_FlushSequence ==
    [][ /\ Called("flush") =>
            /\ insns' = <<"dsb ishst", "tlbi vmalle1is", "dsb ish", "isb">>
            /\ mem' = mem
        /\ Called("ignore") =>
            /\ insns' = <<>>
            /\ mem' = mem
        /\ (Called("flush") \/ Called("ignore")) =>
            /\ last.token = <<last'.page>>
            /\ last'.token = NoToken
            /\ last.op \notin {"flush", "ignore"} ]_vars

\* the token of a successful map_to was flushed
C19_Witness ==
    /\ last.op = "flush"
    /\ last.page = <<0, 0, 0, 1>>
    /\ insns[Len(insns)] = "isb"
    /\ Len(insns) = 4
    /\ TranslatePageNow(last.page).res = "Ok"

\* the steps of map_to add up to map_to: when the last step returns, result,
\* memory, allocator and token are those of the whole call
StepsAgreeWithMapTo ==
    [][ (pc.at # "idle" /\ pc'.at = "idle") =>
            LET o == map_to(pc.mem0, pc.alloc0, ttbr, R, debug, pc.page, pc.frame,
                            pc.flags, pc.attr)
            IN  /\ last'.res = o.res
                /\ mem' = o.mem
                /\ alloc' = o.alloc
                /\ last'.token = o.token ]_vars

\* the entry map_to has just linked a new table into, and that table's cells
LinkEntry == Read(mem, pc.tbl, LevelIndex(pc.page, pc.level))

CellsOf(t) == {c \in DOMAIN mem : c[1] = t}

C21_AsStated ==
    (last.op = "identity_map" /\ last.res = "Ok") =>
        /\ PageVA(last.page) = last.frame
        /\ TranslatePageNow(last.page).res = "Ok"
        /\ TranslatePageNow(last.page).ret = last.frame
        /\ \A o \in OffsetInputs :
                translate_addr(mem, alloc, ttbr, R, PageVA(last.page) \cup o)
                    = Some(PageVA(last.page) \cup o)

\* C21 amended: identity_map(F, flags, attr) returns, and leaves the tables and
\* the allocator, exactly as map_to(P, F, flags, attr) for the page P whose base
\* address equals F's does; after it succeeds having written a descriptor that
\* is not all zero, translate_page(P) yields F and every byte of P translates to
\* its own address.
C21_IdentityMap ==
    [][ Called("identity_map") =>
            LET o == map_to(mem, alloc, ttbr, R, debug, last'.page, last'.frame,
                            last'.flags, last'.attr)
                va == PageVA(last'.page)
            IN  /\ va = last'.frame
                /\ last'.res = o.res
                /\ mem' = o.mem
                /\ alloc' = o.alloc
                /\ last'.token = o.token
                /\ (last'.res = "Ok"
                        /\ set_frame(last'.frame, last'.flags, last'.attr) # {}) =>
                        /\ translate_page(mem', alloc', ttbr, R, last'.page).res = "Ok"
                        /\ translate_page(mem', alloc', ttbr, R, last'.page).ret
                                = last'.frame
                        /\ \A off \in OffsetInputs :
                                translate_addr(mem', alloc', ttbr, R, va \cup off)
                                    = Some(va \cup off) ]_vars

\* frame 0x2000 was identity-mapped: address 0x2123 translates to 0x2123
C21_Witness ==
    /\ last.op = "identity_map"
    /\ last.res = "Ok"
    /\ last.frame = {13}
    /\ last.page = <<0, 0, 0, 2>>
    /\ last.flags = default_page
    /\ TranslatePageNow(<<0, 0, 0, 2>>).ret = {13}
    /\ translate_addr(mem, alloc, ttbr, R, {0, 1, 5, 8, 13}) = Some({0, 1, 5, 8, 13})

\* the frame the allocator handed out last in the map_to in progress
LastAllocated == pc.alloc0[Len(pc.alloc0) - Len(alloc)]

\* C22: create_next_table on an unused entry leaves in it a descriptor with
\* VALID and TABLE_OR_PAGE set, the allocated frame as output address, attribute
\* index 0 and inner shareability (bits 8 and 9) and nothing else; is_block() is
\* false on it, and the call goes on to the new table instead of returning
\* ParentEntryHugePage.
C22_NewTableDescriptor ==
    [][ (pc.at = "linked" /\ pc.created) =>
            /\ VALID \in LinkEntry
            /\ TABLE_OR_PAGE \in LinkEntry
            /\ addr(LinkEntry) = LastAllocated
            /\ attr(LinkEntry) \cap (2..4) = IdxBits(0, 2)
            /\ attr(LinkEntry) \cap (8..9) = {8, 9}
            /\ LinkEntry = LastAllocated \cup {VALID, TABLE_OR_PAGE} \cup {8, 9}
            /\ ~is_block(LinkEntry)
            /\ pc'.at = "barrier"
            /\ last' = last ]_vars

\* the root entry of page 0x1000 was unused and now links the frame 0x3000
C22_Witness ==
    /\ pc.at = "linked"
    /\ pc.created
    /\ pc.level = 4
    /\ pc.page = <<0, 0, 0, 1>>
    /\ Read(pc.mem0, ttbr, 0) = {}
    /\ Read(mem, ttbr, 0) = {12, 13} \cup {0, 1} \cup {8, 9}

\* memory m without the cells of the table in frame t
WithoutTable(m, t) == [c \in {k \in DOMAIN m : k[1] # t} |-> m[c]]

ReadCell(m, c) == Read(m, c[1], c[2])

\* the cells whose word differs between m1 and m2
Changed(m1, m2) ==
    {c \in (DOMAIN m1) \cup (DOMAIN m2) : ReadCell(m1, c) # ReadCell(m2, c)}

\* the non-leaf entries on the path of a page in memory m, from the root down
PathCells(m, page) ==
    { <<ttbr, p4_index(page)>>,
      <<addr(Read(m, ttbr, p4_index(page))), p3_index(page)>>,
      <<addr(Read(m, addr(Read(m, ttbr, p4_index(page))), p3_index(page))),
        p2_index(page)>> }

\* the frames the map_to in progress has taken when the allocator is al
TakenFrames(al) == {pc.alloc0[i] : i \in 1..(Len(pc.alloc0) - Len(al))}

\* C24: on an entry that is a valid table descriptor create_next_table takes no
\* frame, executes no barrier, writes nothing and returns the table the entry
\* references; a successful map_to(P, ...) changes, among the entries that were
\* part of a table before the call, only P's leaf and the non-leaf entries on
\* P's path that were unused and now link a table (the other writes are the
\* zeroing of the tables it created), and translate_page(Q) is the same for
\* every other page Q that was mapped before the call.
C24_ExistingTableKept ==
    [][ /\ (pc.at = "entry" /\ pc.ok /\ IsTableDesc(LinkEntry)) =>
                /\ pc'.at = "linked"
                /\ ~pc'.created
                /\ mem' = mem
                /\ alloc' = alloc
                /\ insns' = <<>>
        /\ (pc.at = "linked" /\ ~pc.created /\ IsTableDesc(LinkEntry)) =>
                /\ pc'.at \in {"entry", "leaf"}
                /\ pc'.tbl = addr(LinkEntry)
                /\ pc'.ok
                /\ ~pc'.fresh
                /\ mem' = mem
                /\ alloc' = alloc
                /\ insns' = <<>>
        /\ (pc.at = "leaf" /\ pc'.at = "idle" /\ last'.res = "Ok") =>
                /\ \A c \in Changed(pc.mem0, mem') :
                        \/ c = <<pc.tbl, p1_index(pc.page)>>
                        \/ /\ c \in PathCells(mem', pc.page)
                           /\ is_unused(ReadCell(pc.mem0, c))
                           /\ IsTableDesc(ReadCell(mem', c))
                           /\ addr(ReadCell(mem', c)) \in TakenFrames(alloc')
                        \/ c[1] \in TakenFrames(alloc')
                /\ \A q \in PageInputs(R) \ {pc.page} :
                        LET before == translate_page(pc.mem0, pc.alloc0, ttbr, R, q)
                            after == translate_page(mem', alloc', ttbr, R, q)
                        IN  before.res = "Ok" =>
                                (after.res = "Ok" /\ after.ret = before.ret) ]_vars

\* page 0x0 was mapped through the three tables made for page 0x1000: no frame
\* taken, and page 0x1000 still translates to its frame
C24_Witness ==
    /\ LastMapOk
    /\ last.page = <<0, 0, 0, 0>>
    /\ last.taken = 0
    /\ prev_map.page = <<0, 0, 0, 1>>
    /\ prev_map.taken = 3
    /\ TranslatePageNow(prev_map.page).res = "Ok"
    /\ TranslatePageNow(prev_map.page).ret = prev_map.frame
    /\ TranslatePageNow(last.page).res = "Ok"

\* what claim C25 gives for get_entry of a page: PageNotMapped at the first
\* unused non-leaf entry from the root down, else the level-1 entry
C25Expected(page) ==
    IF is_unused(Root4(page)) \/ is_unused(Level3(page)) \/ is_unused(Level2(page))
    THEN [res |-> "PageNotMapped", tbl |-> {}, idx |-> 0]
    ELSE [res |-> "Ok", tbl |-> addr(Level2(page)), idx |-> p1_index(page)]

\* C25 as stated: with the recursive slot in place, get_entry(P) changes no
\* entry and takes no frame, fails with PageNotMapped when a non-leaf entry on
\* P's path is unused, and otherwise returns the level-1 entry at P's level-1
\* index.
C25_AsStated ==
    SlotOk(mem) =>
        \A page \in PageInputs(R) :
            /\ GetEntryNow(page).mem = mem
            /\ GetEntryNow(page).alloc = alloc
            /\ GetEntryNow(page).res = C25Expected(page).res
            /\ GetEntryNow(page).tbl = C25Expected(page).tbl
            /\ GetEntryNow(page).idx = C25Expected(page).idx

\* the entries on the path of a page: root, level 3, level 2, leaf
PathEntries(page) == <<Root4(page), Level3(page), Level2(page), Leaf1(mem, page)>>

\* the positions on the path whose entry is not a valid table-or-page descriptor
NotTableOrPage(page) == {i \in 1..4 : ~IsTableDesc(PathEntries(page)[i])}

\* the first of them
FirstNotTableOrPage(page) ==
    PathEntries(page)[CHOOSE i \in NotTableOrPage(page) :
                          \A j \in NotTableOrPage(page) : i <= j]

\* C26: an unmap(P) that does not succeed changes no entry, takes no frame and
\* returns no frame and no token; with the recursive slot in place unmap fails
\* exactly when an entry on the path (root, level 3, level 2, leaf) is not a
\* valid table-or-page descriptor: with PageNotMapped when the first such entry
\* has VALID clear, with ParentEntryHugePage when it has VALID set and
\* TABLE_OR_PAGE clear.
C26_FailingUnmap ==
    [][ Called("unmap") =>
            /\ last'.res # "Ok" =>
                    /\ mem' = mem
                    /\ alloc' = alloc
                    /\ last'.ret = {}
                    /\ last'.token = NoToken
            /\ SlotOk(mem) =>
                    IF NotTableOrPage(last'.page) = {}
                    THEN last'.res = "Ok"
                    ELSE IF VALID \notin FirstNotTableOrPage(last'.page)
                    THEN last'.res = "PageNotMapped"
                    ELSE /\ TABLE_OR_PAGE \notin FirstNotTableOrPage(last'.page)
                         /\ last'.res = "ParentEntryHugePage" ]_vars

\* unmap of a page whose leaf map_to wrote with the default block flags: the
\* leaf has VALID set and TABLE_OR_PAGE clear and stays as it was
C26_Witness ==
    /\ UnmapAfterMap
    /\ last.res = "ParentEntryHugePage"
    /\ last.token = NoToken
    /\ prev_map.flags = default_block
    /\ NotTableOrPage(last.page) = {4}
    /\ Leaf1(mem, last.page) = prev_map.frame \cup default_block \cup prev_map.attr

\* the last call broke the precondition of the setter it reaches
BreaksSetterContract(call) ==
    \/ call.op \in {"map_to", "set_frame"} /\ TABLE_OR_PAGE \notin call.flags
    \/ call.op = "set_block" /\ TABLE_OR_PAGE \in call.flags

\* C27: in a build with debug assertions, set_frame with flags lacking
\* TABLE_OR_PAGE and set_block with flags holding it panic and leave the entry
\* as it was; map_to with leaf flags lacking TABLE_OR_PAGE never succeeds and,
\* when it reaches the leaf, panics with the leaf still unused; a panic halts
\* execution; and nothing panics otherwise: no set_frame that create_next_table
\* makes, and nothing in a build without debug assertions.
C27_SetterAssertions ==
    [][ nops' = nops + 1 =>
            /\ ( /\ last'.op \in {"set_frame", "set_block"}
                 /\ debug
                 /\ BreaksSetterContract(last')
                 /\ GetEntryNow(last'.page).res = "Ok" ) =>
                    /\ last'.res = "Panic"
                    /\ mem' = mem
            /\ (last'.op = "map_to" /\ debug /\ BreaksSetterContract(last')) =>
                    /\ last'.res \in {"Panic", "FrameAllocationFailed",
                                      "ParentEntryHugePage", "PageAlreadyMapped",
                                      "DataAbort"}
                    /\ last'.res = "Panic" => is_unused(Leaf1(mem', last'.page))
            /\ last'.res = "Panic" => (halted' /\ debug /\ BreaksSetterContract(last')) ]_vars

\* map_to with the default block flags made three tables and panicked at the
\* leaf, which is still unused
C27_Witness ==
    /\ last.op = "map_to"
    /\ last.res = "Panic"
    /\ last.flags = default_block
    /\ last.taken = 3
    /\ halted
    /\ IsTableDesc(Level2(last.page))
    /\ is_unused(Leaf1(mem, last.page))

\* C28: flag bits, output-address bits (12 to 47) and attribute bits (2 to 4, 8
\* and 9) are pairwise disjoint; after set_addr(A, f, a) with A 4KiB-aligned
\* and below 2^48, addr() is A, flags() is f and attr() is a.
C28_SetAddrRoundTrip ==
    [][ /\ ADDR_MASK = 12..47
        /\ MEMORY_ATTR_MASK = (2..4) \cup (8..9)
        /\ PageTableFlags_all \cap ADDR_MASK = {}
        /\ PageTableFlags_all \cap MEMORY_ATTR_MASK = {}
        /\ ADDR_MASK \cap MEMORY_ATTR_MASK = {}
        /\ Called("set_addr") =>
                /\ last'.frame \subseteq 12..47
                /\ addr(Entry0(mem')) = last'.frame
                /\ flags(Entry0(mem')) = last'.flags
                /\ attr(Entry0(mem')) = last'.attr ]_vars

\* set_addr(0x8000_0000_1000, every flag, every attribute bit): the word has
\* every bit but 48 to 50 and the address bits in between
C28_Witness ==
    /\ last.op = "set_addr"
    /\ last.frame = {12, 47}
    /\ last.flags = PageTableFlags_all
    /\ last.attr = MEMORY_ATTR_MASK
    /\ addr(Entry0(mem)) = {12, 47}
    /\ Entry0(mem) = {12, 47} \cup PageTableFlags_all \cup MEMORY_ATTR_MASK

\* the call just made was set_block::<S>, and S::SIZE is 2^k
CalledSetBlock(k) ==
    \/ k = 21 /\ Called("set_block 2MiB")
    \/ k = 30 /\ Called("set_block 1GiB")

\* the word a rounded down to a multiple of 2^k: the bits from k upwards
RoundedDown(a, k) == {b \in a : b >= k}

\* C29 as stated: after set_block::<S>(A, f, a) with f lacking TABLE_OR_PAGE,
\* addr() is A rounded down to a multiple of S::SIZE, is_block() is true,
\* flags() is f and attr() is a, for every address A.
C29_AsStated ==
    [][ \A k \in BlockSizeInputs :
            (CalledSetBlock(k) /\ TABLE_OR_PAGE \notin last'.flags) =>
                /\ addr(Entry0(mem')) = RoundedDown(last'.frame, k)
                /\ is_block(Entry0(mem'))
                /\ flags(Entry0(mem')) = last'.flags
                /\ attr(Entry0(mem')) = last'.attr ]_vars

\* C29 amended: after set_block::<S>(A, f, a) with A below 2^48 and f lacking
\* TABLE_OR_PAGE, addr() is A rounded down to a multiple of S::SIZE, is_block()
\* is true, flags() is f and attr() is a; the bits of A from 48 upwards are
\* stored in the word as well and addr() does not return them.
C29_SetBlockTruncates ==
    [][ \A k \in BlockSizeInputs :
            (CalledSetBlock(k) /\ TABLE_OR_PAGE \notin last'.flags) =>
                /\ last'.frame \subseteq 0..47 =>
                        addr(Entry0(mem')) = RoundedDown(last'.frame, k)
                /\ addr(Entry0(mem')) = RoundedDown(last'.frame, k) \cap (0..47)
                /\ Entry0(mem') \ (0..47) = (last'.frame \cup last'.flags) \ (0..47)
                /\ is_block(Entry0(mem'))
                /\ flags(Entry0(mem')) = last'.flags \cup (last'.frame \cap PageTableFlags_all \cap (48..63))
                /\ attr(Entry0(mem')) = last'.attr ]_vars

\* set_block::<Size2MiB>(0x4020_2020, default block flags, device): the entry
\* holds the address 0x4020_0000
C29_Witness ==
    /\ last.op = "set_block 2MiB"
    /\ last.frame = {5, 13, 21, 30}
    /\ last.flags = default_block
    /\ last.attr = MairDevice_attr_value
    /\ addr(Entry0(mem)) = {21, 30}
    /\ Entry0(mem) = {21, 30} \cup default_block \cup MairDevice_attr_value

\* the memory kinds: attribute-table index and per-entry attribute value
MairKinds ==
    { [index |-> MairNormal_INDEX, attr |-> MairNormal_attr_value],
      [index |-> MairDevice_INDEX, attr |-> MairDevice_attr_value],
      [index |-> MairNormalNonCacheable_INDEX,
       attr |-> MairNormalNonCacheable_attr_value] }

\* C30: normal cacheable, device and normal non-cacheable have the indices 0, 1
\* and 2; the attr_value of each kind holds its index in bits 2 to 4 and
\* otherwise only shareability bits (8 and 9), so it lies inside
\* MEMORY_ATTR_MASK; attr() returns it unchanged after set_frame, set_block or
\* set_attr stored it.
C30_MemoryKinds ==
    [][ /\ MairNormal_INDEX = 0
        /\ MairDevice_INDEX = 1
        /\ MairNormalNonCacheable_INDEX = 2
        /\ Cardinality({k.index : k \in MairKinds}) = 3
        /\ \A k \in MairKinds :
                /\ k.attr \cap (2..4) = IdxBits(k.index, 2)
                /\ k.attr \ (2..4) \subseteq 8..9
                /\ k.attr \subseteq MEMORY_ATTR_MASK
        /\ ( /\ nops' = nops + 1
             /\ last'.op \in {"set_frame", "set_block 2MiB", "set_block 1GiB", "set_attr"}
             /\ last'.attr \in {k.attr : k \in MairKinds} ) =>
                attr(Entry0(mem')) = last'.attr ]_vars

\* set_frame stored the non-cacheable attribute over an entry that set_block
\* had left with the device attribute
C30_Witness ==
    /\ nops = 2
    /\ last.op = "set_frame"
    /\ last.attr = MairNormalNonCacheable_attr_value
    /\ attr(Entry0(mem)) = {3, 9}
    /\ flags(Entry0(mem)) = default_page

IsPrefix(s, t) == Len(s) <= Len(t) /\ s = SubSeq(t, 1, Len(s))

\* the members of a set of numbers in ascending order
Ascending(S) ==
    [i \in 1..Cardinality(S) |-> CHOOSE a \in S : Cardinality({b \in S : b < a}) = i - 1]

\* the line-size-aligned addresses a with align_down(start, line) <= a < end
LinesOfCall ==
    {a \in 0..UsizeMax : /\ a % line_size(pc.ctr) = 0
                         /\ a + line_size(pc.ctr) > pc.start
                         /\ a < pc.end}

\* what flush_range is to execute for the call in pc
FlushExpected ==
    [i \in 1..Cardinality(LinesOfCall) |-> flush_line_op(Ascending(LinesOfCall)[i])]
        \o <<dsb(pc.domain), isb>>

\* the last line of the address space is among the lines of the call: the
\* addition after its line operation overflows
ReachesLastLine == \E a \in LinesOfCall : a + line_size(pc.ctr) > UsizeMax

\* C31 as stated: flush_range(start, end, domain) applies the line operation
\* exactly once, in ascending order, to every line-size-aligned address a with
\* align_down(start, line) <= a < end, only then issues dsb(domain) and isb, and
\* terminates for every start and end.
C31_AsStated ==
    /\ [](IsPrefix(insns, FlushExpected))
    /\ [](pc.at = "done" => insns = FlushExpected)
    /\ <>(pc.at = "done")

\* the same for the calls whose lines do not include the last line of the
\* address space
FlushBelowLastLine ==
    /\ [](~ReachesLastLine => IsPrefix(insns, FlushExpected))
    /\ [](~ReachesLastLine /\ pc.at = "done" => insns = FlushExpected)
    /\ (~ReachesLastLine) ~> (pc.at = "done")

\* a call that covers the last line never returns: it panics or flushes on
FlushOverLastLine == [](ReachesLastLine => pc.at # "done")

\* C34: a map_to that fails with ParentEntryHugePage or PageAlreadyMapped has
\* taken no frame from the allocator and has changed no entry of any table.
C34_FailedMapChangesNothing ==
    [][ (Called("map_to") /\ last'.res \in {"ParentEntryHugePage", "PageAlreadyMapped"}) =>
            /\ mem' = mem
            /\ alloc' = alloc
            /\ last'.taken = 0
            /\ last'.token = NoToken ]_vars

\* map_to met a block at level 3 while the allocator still had frames to give
C34_Witness ==
    /\ last.op = "map_to"
    /\ last.res = "ParentEntryHugePage"
    /\ UnderBlock1GiB(mem, last.page)
    /\ alloc # <<>>
    /\ last.taken = 0
    /\ nops = 1

\* C36: for the 4KiB page size translate_page never returns InvalidFrameAddress:
\* the output address of every stored entry, the word masked to bits 12 to 47,
\* is 4KiB-aligned, so a translate_page that returns gives PageNotMapped or a
\* frame.
C36_NeverInvalidFrameAddress ==
    /\ \A c \in DOMAIN mem : align_down(addr(mem[c]), 12) = addr(mem[c])
    /\ \A page \in PageInputs(R) :
            LET t == TranslatePageNow(page)
            IN  /\ t.res \in {"Ok", "PageNotMapped", "DataAbort"}
                /\ t.res = "Ok" => align_down(t.ret, 12) = t.ret

\* translate_page returns the frame of a leaf whose word has bits set below bit 12
C36_Witness ==
    /\ last.op = "map_to"
    /\ last.res = "Ok"
    /\ last.flags = default_page
    /\ TranslatePageNow(last.page).res = "Ok"
    /\ TranslatePageNow(last.page).ret = {13}
    /\ Leaf1(mem, last.page) \cap (0..11) # {}

\* the entries that reference frame f in memory m
LinksTo(m, f) == {c \in DOMAIN m : addr(m[c]) = f}

\* the entries that link a frame of the allocator's pool as a table
TableLinks(m) ==
    {c \in DOMAIN m : IsTableDesc(m[c]) /\ \E i \in 1..MaxAlloc : addr(m[c]) = Pool[i]}

\* C35: every frame map_to takes from the allocator is linked into exactly one
\* non-leaf entry, on the path of the page, whether the call succeeds or fails
\* with FrameAllocationFailed afterwards; the link stays as long as no call is
\* made on a page of the recursive window; and a map_to of the same page after a
\* FrameAllocationFailed, with an allocator that has frames again, takes only
\* the frames for the tables still missing.
C35_TakenFramesLinked ==
    [][ /\ Called("map_to") =>
                /\ last'.taken = Len(alloc) - Len(alloc')
                /\ \A i \in 1..last'.taken :
                        /\ Cardinality(LinksTo(mem', alloc[i])) = 1
                        /\ \A c \in LinksTo(mem', alloc[i]) :
                                /\ c \in PathCells(mem', last'.page)
                                /\ IsTableDesc(mem'[c])
                                /\ ReadCell(mem, c) # mem'[c]
        /\ ~window_used' =>
                \A c \in TableLinks(mem) : ReadCell(mem', c) = mem[c]
        /\ ( /\ Called("map_to")
             /\ last.op = "map_to"
             /\ last.res = "FrameAllocationFailed"
             /\ last'.page = last.page
             /\ SlotOk(mem)
             /\ Len(alloc) >= FramesNeeded(mem, last'.page) ) =>
                /\ last'.res # "FrameAllocationFailed"
                /\ last'.taken = FramesNeeded(mem, last'.page)
                /\ last'.taken <= 3 - last.taken ]_vars

\* map_to failed after linking two tables; with a refilled allocator the map_to
\* of the same page took the one frame still missing and mapped the page
C35_Witness ==
    /\ last.op = "map_to"
    /\ last.res = "Ok"
    /\ last.taken = 1
    /\ nops = 2
    /\ Cardinality(TableLinks(mem)) = 3
    /\ Len(alloc) = MaxAlloc - 3
    /\ TranslatePageNow(last.page).res = "Ok"

\* translate_page(P) after the step yields frame f
YieldsAfter(page, f) ==
    /\ translate_page(mem', alloc', ttbr, R, page).res = "Ok"
    /\ translate_page(mem', alloc', ttbr, R, page).ret = f

\* map_to(P, F2, ...) is called directly after unmap(P), itself called directly
\* after a successful map_to(P, F1, ...)
RemapCalled ==
    /\ Called("map_to")
    /\ UnmapAfterMap
    /\ last'.page = last.page

\* C33 as stated: in the sequence map_to(P, F1) ; unmap(P) ; map_to(P, F2), once
\* the first map_to has succeeded the unmap and the second map_to succeed, the
\* second map_to takes no frame and translate_page(P) then yields F2.
C33_AsStated ==
    [][ RemapCalled =>
            /\ last.res = "Ok"
            /\ last'.res = "Ok"
            /\ last'.taken = 0
            /\ YieldsAfter(last'.page, last'.frame) ]_vars

\* C33 amended: the same, for map_to calls whose flags contain VALID and
\* TABLE_OR_PAGE.
C33_RemapTakesNoFrame ==
    [][ ( /\ RemapCalled
          /\ {VALID, TABLE_OR_PAGE} \subseteq prev_map.flags
          /\ {VALID, TABLE_OR_PAGE} \subseteq last'.flags ) =>
            /\ last.res = "Ok"
            /\ last'.res = "Ok"
            /\ last'.taken = 0
            /\ alloc' = alloc
            /\ YieldsAfter(last'.page, last'.frame) ]_vars

\* page 0x1000 was mapped with three new tables, unmapped, and mapped to frame
\* 0x2000 without a further frame
C33_Witness ==
    /\ nops = 3
    /\ LastMapOk
    /\ last.page = <<0, 0, 0, 1>>
    /\ last.frame = {13}
    /\ last.taken = 0
    /\ {VALID, TABLE_OR_PAGE} \subseteq last.flags
    /\ last.page \notin unmapped
    /\ Len(alloc) = MaxAlloc - 3
    /\ TranslatePageNow(last.page).ret = {13}

\* translate_page(P) fails with PageNotMapped
TranslateNotMapped(page) == TranslatePageNow(page).res = "PageNotMapped"

\* the same after the step, unless the step ended execution
NotMappedAfter(page) ==
    ~halted' => translate_page(mem', alloc', ttbr, R, page).res = "PageNotMapped"

\* the call just made on page P failed with PageNotMapped and changed no entry
FailedNotMapped(page) ==
    (last'.page = page /\ (Called("update_flags") \/ Called("unmap"))) =>
        /\ last'.res = "PageNotMapped"
        /\ last'.token = NoToken
        /\ mem' = mem

\* C32 as stated: after a successful unmap(P), and until a map_to(P, ...)
\* succeeds, translate_page(P), update_flags(P, f) and unmap(P) fail with
\* PageNotMapped and change no entry.
C32_AsStated ==
    [][ /\ \A page \in unmapped' : NotMappedAfter(page)
        /\ \A page \in unmapped : FailedNotMapped(page) ]_vars

\* C32 amended: the same as long as no call, the unmap included, is made on a
\* page of the recursive window.
C32_UnmappedUntilMapped ==
    [][ ~window_used' =>
            /\ \A page \in unmapped' : NotMappedAfter(page)
            /\ \A page \in unmapped : FailedNotMapped(page) ]_vars

\* page 0x1000 was mapped and unmapped, its sibling 0x0 was then mapped, and a
\* second unmap of 0x1000 failed with PageNotMapped
C32_Witness ==
    /\ nops = 4
    /\ ~window_used
    /\ last.op = "unmap"
    /\ last.page = <<0, 0, 0, 1>>
    /\ last.res = "PageNotMapped"
    /\ last.page \in unmapped
    /\ prev_map.page = <<0, 0, 0, 0>>
    /\ TranslatePageNow(<<0, 0, 0, 0>>).res = "Ok"
    /\ TranslateNotMapped(last.page)

====
